---- MODULE Spec2Model ----
(***************************************************************************)
(* netmonitor: the log parser (src/src/netmonitor/parser.py) and the log   *)
(* analyzer (src/src/netmonitor/analyzer.py).                              *)
(*                                                                         *)
(* Text is a sequence of one-character strings, so that str.strip, the    *)
(* LOG_PATTERN regular expression, datetime.strptime, str.upper, the       *)
(* pydantic field constraints and the two re.sub passes of                 *)
(* _simplify_message are computed on characters, as the code computes      *)
(* them.  A Python dict is an insertion-ordered sequence of <<key, value>> *)
(* pairs; a Python list is a sequence.                                     *)
(***************************************************************************)
EXTENDS Integers, Sequences, FiniteSets, TLC

(***************************************************************************)
(* Characters                                                              *)
(***************************************************************************)
DigitChars == <<"0", "1", "2", "3", "4", "5", "6", "7", "8", "9">>

LowerChars == <<"a", "b", "c", "d", "e", "f", "g", "h", "i", "j", "k", "l", "m",
                "n", "o", "p", "q", "r", "s", "t", "u", "v", "w", "x", "y", "z">>

UpperChars == <<"A", "B", "C", "D", "E", "F", "G", "H", "I", "J", "K", "L", "M",
                "N", "O", "P", "Q", "R", "S", "T", "U", "V", "W", "X", "Y", "Z">>

Range(s) == {s[i] : i \in 1..Len(s)}

\* \d
Digit == Range(DigitChars)

\* \w
Word == Range(DigitChars) \cup Range(LowerChars) \cup Range(UpperChars) \cup {"_"}

\* \s, and the characters str.strip() removes
Space == {" ", "\t"}

\* The characters of the texts of this model
Chars == Word \cup Space \cup {"-", ":", "[", "]", "#", ".", "%", "/"}

\* [^\]]
NotClose == Chars \ {"]"}

DigitVal(c) == (CHOOSE i \in 1..10 : DigitChars[i] = c) - 1

\* int() of a run of decimal digits
RECURSIVE IntOf(_)
IntOf(s) == IF s = <<>> THEN 0 ELSE 10 * IntOf(SubSeq(s, 1, Len(s) - 1)) + DigitVal(s[Len(s)])

UpperChar(c) ==
    IF c \in Range(LowerChars)
    THEN UpperChars[CHOOSE i \in 1..26 : LowerChars[i] = c]
    ELSE c

\* str.upper()
StrUpper(s) == [i \in 1..Len(s) |-> UpperChar(s[i])]

\* The first position at or after i whose character is not in the class
\* (Len(s) + 1 when the run reaches the end of the text): a greedy run.
RECURSIVE RunEnd(_, _, _)
RunEnd(s, i, class) ==
    IF i <= Len(s) /\ s[i] \in class THEN RunEnd(s, i + 1, class) ELSE i

\* The last position at or before i whose character is not in the class
\* (0 when there is none)
RECURSIVE RunStart(_, _, _)
RunStart(s, i, class) ==
    IF i >= 1 /\ s[i] \in class THEN RunStart(s, i - 1, class) ELSE i

Slice(s, i, j) == IF j < i THEN <<>> ELSE SubSeq(s, i, j)

\* s[i] = c, false beyond the end of the text
CharAt(s, i, c) == i <= Len(s) /\ s[i] = c

\* str.strip()
StrStrip(s) == Slice(s, RunEnd(s, 1, Space), RunStart(s, Len(s), Space))

\* str.startswith("#")
StartsWithHash(s) == CharAt(s, 1, "#")

(***************************************************************************)
(* LogEntry: the level names and the field constraints                    *)
(***************************************************************************)
DEBUG    == <<"D", "E", "B", "U", "G">>
INFO     == <<"I", "N", "F", "O">>
WARNING  == <<"W", "A", "R", "N", "I", "N", "G">>
ERROR    == <<"E", "R", "R", "O", "R">>
CRITICAL == <<"C", "R", "I", "T", "I", "C", "A", "L">>

\* Field(pattern=r"^(DEBUG|INFO|WARNING|ERROR|CRITICAL)$")
LevelPattern == {DEBUG, INFO, WARNING, ERROR, CRITICAL}

\* Field(min_length=1, max_length=100) of device
DeviceMinLength == 1
DeviceMaxLength == 100

\* Field(min_length=1) of message
MessageMinLength == 1

level_as_given(v) == v

\* field_validator("level", mode="before")
level_uppercase(v) == StrUpper(v)

\* LogEntry.is_error
is_error(entry) == entry.level \in {ERROR, CRITICAL}

\* LogEntry.is_warning
is_warning(entry) == entry.level = WARNING

\* LogEntry(timestamp=, level=, device=, message=): the validated entry, or
\* a ValidationError
LogEntryNoMaxLength(timestamp, level, device, message) ==
    LET lv == level_uppercase(level)
    IN  IF /\ lv \in LevelPattern
           /\ Len(device) >= DeviceMinLength
           /\ Len(message) >= MessageMinLength
        THEN [ok |-> TRUE,
              entry |-> [timestamp |-> timestamp, level |-> lv,
                         device |-> device, message |-> message]]
        ELSE [ok |-> FALSE, error |-> "ValidationError"]

LogEntryNoLevelPattern(timestamp, level, device, message) ==
    LET lv == level_uppercase(level)
    IN  IF /\ Len(device) >= DeviceMinLength
           /\ Len(device) <= DeviceMaxLength
           /\ Len(message) >= MessageMinLength
        THEN [ok |-> TRUE,
              entry |-> [timestamp |-> timestamp, level |-> lv,
                         device |-> device, message |-> message]]
        ELSE [ok |-> FALSE, error |-> "ValidationError"]

LogEntryTruncatingDevice(timestamp, level, device, message) ==
    LET lv == level_uppercase(level)
    IN  IF /\ lv \in LevelPattern
           /\ Len(device) >= DeviceMinLength
           /\ Len(message) >= MessageMinLength
        THEN [ok |-> TRUE,
              entry |-> [timestamp |-> timestamp, level |-> lv,
                         device |-> SubSeq(device, 1, IF Len(device) < DeviceMaxLength
                                                      THEN Len(device) ELSE DeviceMaxLength),
                         message |-> message]]
        ELSE [ok |-> FALSE, error |-> "ValidationError"]

LogEntry(timestamp, level, device, message) ==
    LET lv == level_uppercase(level)
    IN  IF /\ lv \in LevelPattern
           /\ Len(device) >= DeviceMinLength
           /\ Len(device) <= DeviceMaxLength
           /\ Len(message) >= MessageMinLength
        THEN [ok |-> TRUE,
              entry |-> [timestamp |-> timestamp, level |-> lv,
                         device |-> device, message |-> message]]
        ELSE [ok |-> FALSE, error |-> "ValidationError"]

(***************************************************************************)
(* datetime.strptime(timestamp_str, "%Y-%m-%d %H:%M:%S")                   *)
(***************************************************************************)
IsLeap(y) == (y % 4 = 0 /\ y % 100 # 0) \/ y % 400 = 0

DaysInMonth(y, m) ==
    IF m = 2 THEN (IF IsLeap(y) THEN 29 ELSE 28)
    ELSE IF m \in {4, 6, 9, 11} THEN 30 ELSE 31

\* The text is a match of the first group of LOG_PATTERN: four digits, "-",
\* two digits, "-", two digits, a run of whitespace, and two digits three
\* times with ":" between.  The format's blank matches any whitespace run;
\* %m takes 01..12, %d 01..31, %H 00..23, %M 00..59, %S 00..61, and the
\* datetime constructor then refuses year 0, a day past the end of the
\* month and seconds 60 and 61.
strptime(ts) ==
    LET gap == RunEnd(ts, 11, Space)
        Y == IntOf(SubSeq(ts, 1, 4))
        m == IntOf(SubSeq(ts, 6, 7))
        d == IntOf(SubSeq(ts, 9, 10))
        H == IntOf(SubSeq(ts, gap, gap + 1))
        M == IntOf(SubSeq(ts, gap + 3, gap + 4))
        S == IntOf(SubSeq(ts, gap + 6, gap + 7))
    IN  IF /\ m \in 1..12
           /\ d \in 1..31
           /\ H \in 0..23
           /\ M \in 0..59
           /\ S \in 0..61
           /\ Y >= 1
           /\ d <= DaysInMonth(Y, m)
           /\ S <= 59
        THEN [ok |-> TRUE,
              value |-> [year |-> Y, month |-> m, day |-> d,
                         hour |-> H, minute |-> M, second |-> S]]
        ELSE [ok |-> FALSE, error |-> "ValueError"]

(***************************************************************************)
(* LogParser.LOG_PATTERN and LogParser._parse_line                        *)
(***************************************************************************)
\* \d{n} at position i
DigitsAt(s, i, n) == i + n - 1 <= Len(s) /\ \A k \in i..(i + n - 1) : s[k] \in Digit

\* LOG_PATTERN.match(line): the four groups, or no match.  Every greedy run
\* is followed by a character outside its class, so the only backtracking
\* is the last \s+ giving one character back to (.+) when the text ends in
\* whitespace.
LOG_PATTERN(line) ==
    LET gap1  == RunEnd(line, 11, Space)         \* \s+ inside the timestamp
        tsEnd == gap1 + 7                          \* last character of group 1
        lvl   == RunEnd(line, tsEnd + 1, Space)  \* first character of group 2
        lvlE  == RunEnd(line, lvl, Word)         \* first character after group 2
        brk   == RunEnd(line, lvlE, Space)       \* position of "["
        devE  == RunEnd(line, brk + 1, NotClose) \* position of "]"
        msg   == RunEnd(line, devE + 1, Space)   \* first character after the last \s+
        msg1  == IF msg > Len(line) THEN msg - 1 ELSE msg
    IN  IF /\ DigitsAt(line, 1, 4) /\ CharAt(line, 5, "-")
           /\ DigitsAt(line, 6, 2) /\ CharAt(line, 8, "-")
           /\ DigitsAt(line, 9, 2)
           /\ gap1 > 11
           /\ DigitsAt(line, gap1, 2) /\ CharAt(line, gap1 + 2, ":")
           /\ DigitsAt(line, gap1 + 3, 2) /\ CharAt(line, gap1 + 5, ":")
           /\ DigitsAt(line, gap1 + 6, 2)
           /\ lvl > tsEnd + 1
           /\ lvlE > lvl
           /\ brk > lvlE
           /\ CharAt(line, brk, "[")
           /\ devE > brk + 1
           /\ CharAt(line, devE, "]")
           /\ msg > devE + 1
           /\ msg1 > devE + 1
           /\ msg1 <= Len(line)
        THEN [ok |-> TRUE,
              timestamp_str |-> SubSeq(line, 1, tsEnd),
              level   |-> SubSeq(line, lvl, lvlE - 1),
              device  |-> SubSeq(line, brk + 1, devE - 1),
              message |-> SubSeq(line, msg1, Len(line))]
        ELSE [ok |-> FALSE]

\* LogParser._parse_line(line): the entry, or the exception it raises
_parse_line(line) ==
    LET match == LOG_PATTERN(line)
    IN  IF ~match.ok THEN [ok |-> FALSE, error |-> "Formato invalido"]
        ELSE LET timestamp == strptime(match.timestamp_str)
             IN  IF ~timestamp.ok THEN [ok |-> FALSE, error |-> timestamp.error]
                 ELSE LogEntry(timestamp.value, match.level, match.device, match.message)

(***************************************************************************)
(* The input files: lines written out as text                             *)
(***************************************************************************)
TwoDigits(n) == <<DigitChars[((n \div 10) % 10) + 1], DigitChars[(n % 10) + 1]>>

FourDigits(n) == TwoDigits(n \div 100) \o TwoDigits(n % 100)

DateText(d) == FourDigits(d[1]) \o <<"-">> \o TwoDigits(d[2]) \o <<"-">> \o TwoDigits(d[3])

TimeText(t) == TwoDigits(t[1]) \o <<":">> \o TwoDigits(t[2]) \o <<":">> \o TwoDigits(t[3])

\* A line written as "<lead><date><gap><time> <level> [<device>] <message><trail>"
LineText(l) ==
    l.lead \o DateText(l.date) \o l.gap \o TimeText(l.time) \o <<" ">> \o l.level
           \o <<" ", "[">> \o l.device \o <<"]", " ">> \o l.message \o l.trail

LogLine(lead, date, gap, time, level, device, message, trail) ==
    [kind |-> "log", lead |-> lead, date |-> date, gap |-> gap, time |-> time,
     level |-> level, device |-> device, message |-> message, trail |-> trail]

RawLine(text) == [kind |-> "raw", text |-> text]

TextOf(l) == IF l.kind = "log" THEN LineText(l) ELSE l.text

R1 == <<"R", "1">>
S2 == <<"S", "2">>
LongestDevice == [i \in 1..DeviceMaxLength |-> "d"]
TooLongDevice == [i \in 1..(DeviceMaxLength + 1) |-> "d"]

MsgUp == <<"u", "p">>
MsgTo == <<"t", "o", " ", "1", "0", ".", "0", ".", "0", ".", "1">>

\* The lines a file is made of.  1-3 are well-formed (2 with surrounding
\* whitespace, a lower-case level and a wider gap inside the timestamp, 3
\* with a leap day and a device of the maximum length); 4 has a level
\* outside the closed set; 5 has a day that does not exist; 6 has a device
\* one character too long; 7 has a month that does not exist and a level
\* outside the closed set; 8 and 9 are blank; 10 and 11 are comments; 12
\* and 13 do not have the shape of a log line (13 lacks the message).
Lines ==
    << LogLine(<<>>, <<2024, 10, 5>>, <<" ">>, <<10, 0, 0>>, INFO, R1, MsgUp, <<>>),
       LogLine(<<" ", "\t">>, <<2024, 10, 5>>, <<" ", "\t">>, <<9, 30, 0>>,
               <<"e", "r", "r", "o", "r">>, S2, MsgTo, <<" ">>),
       LogLine(<<>>, <<2024, 2, 29>>, <<" ">>, <<23, 59, 59>>, CRITICAL, LongestDevice, MsgUp, <<>>),
       LogLine(<<>>, <<2024, 10, 5>>, <<" ">>, <<10, 0, 0>>, <<"T", "R", "A", "C", "E">>, R1, MsgUp, <<>>),
       LogLine(<<>>, <<2023, 2, 29>>, <<" ">>, <<10, 0, 0>>, INFO, R1, MsgUp, <<>>),
       LogLine(<<>>, <<2024, 10, 5>>, <<" ">>, <<10, 0, 0>>, INFO, TooLongDevice, MsgUp, <<>>),
       LogLine(<<>>, <<2024, 13, 5>>, <<" ">>, <<10, 0, 0>>, <<"T", "R", "A", "C", "E">>, R1, MsgUp, <<>>),
       RawLine(<<>>),
       RawLine(<<" ", "\t">>),
       RawLine(<<"#", " ", "c">>),
       RawLine(<<" ", "\t", "#", "c">>),
       RawLine(<<"b", "a", "d">>),
       RawLine(DateText(<<2024, 10, 5>>) \o <<" ">> \o TimeText(<<10, 0, 0>>) \o <<" ">> \o INFO
               \o <<" ", "[">> \o R1 \o <<"]">>) >>

Router01 == <<"R", "o", "u", "t", "e", "r", "-", "0", "1">>
Switch02 == <<"S", "w", "i", "t", "c", "h", "-", "0", "2">>
Firewall03 == <<"F", "i", "r", "e", "w", "a", "l", "l", "-", "0", "3">>

\* demo_content, the sample log _create_demo_file writes: 20 lines
DemoLines ==
    << LogLine(<<>>, <<2024, 12, 4>>, <<" ">>, <<8, 0, 15>>, INFO, Router01,
               <<"S", "y", "s", "t", "e", "m", " ", "s", "t", "a", "r", "t", "u", "p", " ", "c", "o", "m", "p", "l", "e", "t", "e">>, <<>>),
       LogLine(<<>>, <<2024, 12, 4>>, <<" ">>, <<8, 1, 23>>, WARNING, Router01,
               <<"H", "i", "g", "h", " ", "C", "P", "U", " ", "u", "s", "a", "g", "e", ":", " ", "7", "8", "%">>, <<>>),
       LogLine(<<>>, <<2024, 12, 4>>, <<" ">>, <<8, 2, 10>>, ERROR, Router01,
               <<"C", "o", "n", "n", "e", "c", "t", "i", "o", "n", " ", "t", "i", "m", "e", "o", "u", "t", " ", "t", "o", " ", "1", "9", "2", ".", "1", "6", "8", ".", "1", ".", "1", "0", "0">>, <<>>),
       LogLine(<<>>, <<2024, 12, 4>>, <<" ">>, <<8, 3, 12>>, ERROR, Router01,
               <<"C", "o", "n", "n", "e", "c", "t", "i", "o", "n", " ", "t", "i", "m", "e", "o", "u", "t", " ", "t", "o", " ", "1", "9", "2", ".", "1", "6", "8", ".", "1", ".", "1", "0", "1">>, <<>>),
       LogLine(<<>>, <<2024, 12, 4>>, <<" ">>, <<8, 4, 45>>, ERROR, Router01,
               <<"B", "G", "P", " ", "p", "e", "e", "r", " ", "1", "0", ".", "0", ".", "0", ".", "1", " ", "d", "o", "w", "n">>, <<>>),
       LogLine(<<>>, <<2024, 12, 4>>, <<" ">>, <<8, 5, 15>>, CRITICAL, Router01,
               <<"M", "e", "m", "o", "r", "y", " ", "u", "s", "a", "g", "e", " ", "c", "r", "i", "t", "i", "c", "a", "l", ":", " ", "9", "5", "%">>, <<>>),
       LogLine(<<>>, <<2024, 12, 4>>, <<" ">>, <<8, 6, 55>>, ERROR, Switch02,
               <<"S", "T", "P", " ", "l", "o", "o", "p", " ", "d", "e", "t", "e", "c", "t", "e", "d", " ", "o", "n", " ", "p", "o", "r", "t", " ", "8">>, <<>>),
       LogLine(<<>>, <<2024, 12, 4>>, <<" ">>, <<8, 8, 45>>, ERROR, Router01,
               <<"C", "o", "n", "n", "e", "c", "t", "i", "o", "n", " ", "t", "i", "m", "e", "o", "u", "t", " ", "t", "o", " ", "1", "9", "2", ".", "1", "6", "8", ".", "1", ".", "1", "0", "2">>, <<>>),
       LogLine(<<>>, <<2024, 12, 4>>, <<" ">>, <<8, 10, 25>>, ERROR, Router01,
               <<"O", "S", "P", "F", " ", "n", "e", "i", "g", "h", "b", "o", "r", " ", "t", "i", "m", "e", "o", "u", "t">>, <<>>),
       LogLine(<<>>, <<2024, 12, 4>>, <<" ">>, <<8, 11, 0>>, CRITICAL, Firewall03,
               <<"S", "e", "c", "u", "r", "i", "t", "y", " ", "p", "o", "l", "i", "c", "y", " ", "v", "i", "o", "l", "a", "t", "i", "o", "n", " ", "d", "e", "t", "e", "c", "t", "e", "d">>, <<>>),
       LogLine(<<>>, <<2024, 12, 4>>, <<" ">>, <<8, 12, 10>>, ERROR, Switch02,
               <<"P", "o", "r", "t", " ", "s", "e", "c", "u", "r", "i", "t", "y", " ", "v", "i", "o", "l", "a", "t", "i", "o", "n", " ", "o", "n", " ", "p", "o", "r", "t", " ", "1", "6">>, <<>>),
       LogLine(<<>>, <<2024, 12, 4>>, <<" ">>, <<8, 13, 55>>, ERROR, Router01,
               <<"C", "o", "n", "n", "e", "c", "t", "i", "o", "n", " ", "t", "i", "m", "e", "o", "u", "t", " ", "t", "o", " ", "1", "9", "2", ".", "1", "6", "8", ".", "1", ".", "1", "0", "3">>, <<>>),
       LogLine(<<>>, <<2024, 12, 4>>, <<" ">>, <<8, 15, 40>>, ERROR, Router01,
               <<"C", "o", "n", "n", "e", "c", "t", "i", "o", "n", " ", "t", "i", "m", "e", "o", "u", "t", " ", "t", "o", " ", "1", "9", "2", ".", "1", "6", "8", ".", "1", ".", "1", "0", "4">>, <<>>),
       LogLine(<<>>, <<2024, 12, 4>>, <<" ">>, <<9, 2, 35>>, ERROR, Router01,
               <<"R", "o", "u", "t", "i", "n", "g", " ", "p", "r", "o", "t", "o", "c", "o", "l", " ", "f", "a", "i", "l", "u", "r", "e">>, <<>>),
       LogLine(<<>>, <<2024, 12, 4>>, <<" ">>, <<9, 4, 55>>, ERROR, Router01,
               <<"C", "o", "n", "n", "e", "c", "t", "i", "o", "n", " ", "t", "i", "m", "e", "o", "u", "t", " ", "t", "o", " ", "1", "9", "2", ".", "1", "6", "8", ".", "1", ".", "1", "0", "5">>, <<>>),
       LogLine(<<>>, <<2024, 12, 4>>, <<" ">>, <<9, 7, 30>>, CRITICAL, Router01,
               <<"H", "a", "r", "d", "w", "a", "r", "e", " ", "f", "a", "i", "l", "u", "r", "e", " ", "d", "e", "t", "e", "c", "t", "e", "d">>, <<>>),
       LogLine(<<>>, <<2024, 12, 4>>, <<" ">>, <<9, 8, 45>>, ERROR, Switch02,
               <<"P", "o", "w", "e", "r", " ", "s", "u", "p", "p", "l", "y", " ", "2", " ", "f", "a", "i", "l", "e", "d">>, <<>>),
       LogLine(<<>>, <<2024, 12, 4>>, <<" ">>, <<8, 0, 45>>, INFO, Switch02,
               <<"P", "o", "r", "t", " ", "2", "4", " ", "l", "i", "n", "k", " ", "u", "p">>, <<>>),
       LogLine(<<>>, <<2024, 12, 4>>, <<" ">>, <<8, 2, 45>>, INFO, Firewall03,
               <<"R", "u", "l", "e", " ", "#", "2", "4", "5", " ", "a", "p", "p", "l", "i", "e", "d">>, <<>>),
       LogLine(<<>>, <<2024, 12, 4>>, <<" ">>, <<8, 5, 50>>, WARNING, Firewall03,
               <<"P", "a", "c", "k", "e", "t", " ", "d", "r", "o", "p", "p", "e", "d", ":", " ", "i", "n", "v", "a", "l", "i", "d", " ", "s", "o", "u", "r", "c", "e">>, <<>>) >>

LineIds == 1..Len(Lines)

demo_content_with_comments ==
    [k \in 1..Len(DemoLines) |-> IF k = 1 THEN 10 ELSE IF k = 2 THEN 8 ELSE Len(Lines) + k]

\* The lines of the sample log, as a file
demo_content == [k \in 1..Len(DemoLines) |-> Len(Lines) + k]

\* The text of every line, computed once
Text ==
    [i \in 1..(Len(Lines) + Len(DemoLines)) |->
        IF i <= Len(Lines) THEN TextOf(Lines[i]) ELSE TextOf(DemoLines[i - Len(Lines)])]

MaxLines == 2
MaxRuns == 2

Files == UNION {[1..n -> LineIds] : n \in 0..MaxLines}

(***************************************************************************)
(* State                                                                   *)
(***************************************************************************)
VARIABLES
    file,         \* the lines of the file at LogParser.file_path (ids of Lines)
    pc,           \* "idle" | "reading" | "returned" | "raised": where parse() is
    runs,         \* the number of parse() calls made on this parser
    line_num,     \* the enumerate() counter of the running parse()
    handle_open,  \* the file object f of the with statement is open
    entries,      \* LogParser.entries
    _errors,      \* LogParser._errors
    an_entries,   \* LogAnalyzer.entries
    snapshots,    \* the LogAnalysis values returned by analyze(), oldest first
    command,      \* the command of main that runs: "analyze" | "demo" | "none"
    quiet,        \* its option --quiet
    output,       \* its option --output: <<>> for None, or <<path>>
    format,       \* its option --format, a local variable of analyze
    step,         \* "start" | "parse" | "analyze" | "report" | "exited": where it is
    exit_code,    \* <<>> while it runs, then <<code>>
    exists,       \* a file exists at the path the command reads
    console,      \* what main and Reporter printed on the console, in order
    saved,        \* <<>>, or the file Reporter wrote last
    failure,      \* the exception that left the last call of Reporter or ended the command
    reports       \* the number of calls of Reporter.display_console and Reporter.save

parserVars == <<file, pc, runs, line_num, handle_open, entries, _errors>>
analyzerVars == <<an_entries, snapshots>>
commandVars == <<command, quiet, output, format, step, exit_code, exists, console, saved,
                 failure, reports>>
vars == <<file, pc, runs, line_num, handle_open, entries, _errors, an_entries, snapshots,
          command, quiet, output, format, step, exit_code, exists, console, saved,
          failure, reports>>

\* No command of main runs, and no Reporter exists
NoCommand ==
    /\ command = "none"
    /\ quiet = FALSE
    /\ output = <<>>
    /\ format = "console"
    /\ step = "none"
    /\ exit_code = <<>>
    /\ exists = TRUE
    /\ console = <<>>
    /\ saved = <<>>
    /\ failure = "none"
    /\ reports = 0

(***************************************************************************)
(* LogParser                                                               *)
(***************************************************************************)
\* LogParser.__init__ on a file of the catalogue
Init ==
    /\ file \in Files
    /\ pc = "idle"
    /\ runs = 0
    /\ line_num = 0
    /\ handle_open = FALSE
    /\ entries = <<>>
    /\ _errors = <<>>
    /\ an_entries = <<>>
    /\ snapshots = <<>>
    /\ NoCommand

\* parse(): open(self.file_path) succeeds
ParseOpen ==
    /\ pc \in {"idle", "returned", "raised"}
    /\ runs < MaxRuns
    /\ runs' = runs + 1
    /\ pc' = "reading"
    /\ line_num' = 0
    /\ handle_open' = TRUE
    /\ UNCHANGED <<file, entries, _errors, an_entries, snapshots>>

\* parse(): open(self.file_path) raises (the file is missing or unreadable)
ParseOpenFails ==
    /\ pc \in {"idle", "returned", "raised"}
    /\ runs < MaxRuns
    /\ runs' = runs + 1
    /\ pc' = "raised"
    /\ UNCHANGED <<file, line_num, handle_open, entries, _errors, an_entries, snapshots>>

SkipBlankOnly(line) == line = <<>>

\* if not line or line.startswith("#"): continue
SkipLine(line) == line = <<>> \/ StartsWithHash(line)

ParseLineUncaught ==
    /\ pc = "reading"
    /\ line_num < Len(file)
    /\ line_num' = line_num + 1
    /\ LET line == StrStrip(Text[file[line_num']])
       IN  IF SkipLine(line)
           THEN UNCHANGED <<pc, handle_open, entries, _errors>>
           ELSE LET r == _parse_line(line)
                IN  IF r.ok
                    THEN /\ entries' = Append(entries, r.entry)
                         /\ UNCHANGED <<pc, handle_open, _errors>>
                    ELSE /\ pc' = "raised"
                         /\ handle_open' = FALSE
                         /\ UNCHANGED <<entries, _errors>>
    /\ UNCHANGED <<file, runs, an_entries, snapshots>>

ParseLinePrepend ==
    /\ pc = "reading"
    /\ line_num < Len(file)
    /\ line_num' = line_num + 1
    /\ LET line == StrStrip(Text[file[line_num']])
       IN  IF SkipLine(line)
           THEN UNCHANGED <<entries, _errors>>
           ELSE LET r == _parse_line(line)
                IN  IF r.ok
                    THEN /\ entries' = <<r.entry>> \o entries
                         /\ UNCHANGED _errors
                    ELSE /\ _errors' = Append(_errors, <<line_num', r.error>>)
                         /\ UNCHANGED entries
    /\ UNCHANGED <<file, pc, runs, handle_open, an_entries, snapshots>>

ParseLineErrorsPrepended ==
    /\ pc = "reading"
    /\ line_num < Len(file)
    /\ line_num' = line_num + 1
    /\ LET line == StrStrip(Text[file[line_num']])
       IN  IF SkipLine(line)
           THEN UNCHANGED <<entries, _errors>>
           ELSE LET r == _parse_line(line)
                IN  IF r.ok
                    THEN /\ entries' = Append(entries, r.entry)
                         /\ UNCHANGED _errors
                    ELSE /\ _errors' = <<<<line_num', r.error>>>> \o _errors
                         /\ UNCHANGED entries
    /\ UNCHANGED <<file, pc, runs, handle_open, an_entries, snapshots>>

\* One iteration of the for loop of parse(), over the next line of the file:
\* strip, skip, _parse_line, and the except clause that records the failure
ParseLine ==
    /\ pc = "reading"
    /\ line_num < Len(file)
    /\ line_num' = line_num + 1
    /\ LET line == StrStrip(Text[file[line_num']])
       IN  IF SkipLine(line)
           THEN UNCHANGED <<entries, _errors>>
           ELSE LET r == _parse_line(line)
                IN  IF r.ok
                    THEN /\ entries' = Append(entries, r.entry)
                         /\ UNCHANGED _errors
                    ELSE /\ _errors' = Append(_errors, <<line_num', r.error>>)
                         /\ UNCHANGED entries
    /\ UNCHANGED <<file, pc, runs, handle_open, an_entries, snapshots>>

ParseReadFailsHandleLeft ==
    /\ pc = "reading"
    /\ pc' = "raised"
    /\ UNCHANGED <<file, runs, line_num, handle_open, entries, _errors, an_entries, snapshots>>

\* Reading the next line raises (OSError, UnicodeDecodeError): the with
\* statement closes the file and the exception leaves parse()
ParseReadFails ==
    /\ pc = "reading"
    /\ pc' = "raised"
    /\ handle_open' = FALSE
    /\ UNCHANGED <<file, runs, line_num, entries, _errors, an_entries, snapshots>>

\* The file is exhausted: the with statement closes it and parse() returns
\* self.entries
ParseReturn ==
    /\ pc = "reading"
    /\ line_num = Len(file)
    /\ pc' = "returned"
    /\ handle_open' = FALSE
    /\ UNCHANGED <<file, runs, line_num, entries, _errors, an_entries, snapshots>>

\* LogParser.error_count
error_count == Len(_errors)

\* LogParser.get_errors()
get_errors == _errors

\* The calls and steps of a LogParser, with no command of main around it
Next ==
    \/ ParseOpen /\ UNCHANGED commandVars
    \/ ParseOpenFails /\ UNCHANGED commandVars
    \/ ParseLine /\ UNCHANGED commandVars
    \/ ParseReadFails /\ UNCHANGED commandVars
    \/ ParseReturn /\ UNCHANGED commandVars

Spec == Init /\ [][Next]_vars

(***************************************************************************)
(* LogAnalyzer: the helpers of the aggregations                            *)
(***************************************************************************)
\* datetime comparison, a <= b: field by field from the year down
NotAfter(a, b) ==
    LET x == <<a.year, a.month, a.day, a.hour, a.minute, a.second>>
        y == <<b.year, b.month, b.day, b.hour, b.minute, b.second>>
    IN  \/ x = y
        \/ \E k \in 1..6 : x[k] < y[k] /\ \A j \in 1..(k - 1) : x[j] = y[j]

\* dict.get(key, default) on an insertion-ordered dict
Get(dict, key, default) ==
    IF \E i \in 1..Len(dict) : dict[i][1] = key
    THEN dict[CHOOSE i \in 1..Len(dict) : dict[i][1] = key][2]
    ELSE default

\* collections.Counter(keys), and a defaultdict(int) incremented key by key:
\* the keys in order of first occurrence, each with its number of occurrences
RECURSIVE Counter(_)
Counter(keys) ==
    IF keys = <<>> THEN <<>>
    ELSE LET c == Counter(SubSeq(keys, 1, Len(keys) - 1))
             k == keys[Len(keys)]
         IN  IF \E i \in 1..Len(c) : c[i][1] = k
             THEN [i \in 1..Len(c) |-> IF c[i][1] = k THEN <<k, c[i][2] + 1>> ELSE c[i]]
             ELSE Append(c, <<k, 1>>)

\* sorted(items, key=count, reverse=True): descending by count, items of
\* equal count in their original order
RECURSIVE SortedByCountDesc(_)
SortedByCountDesc(items) ==
    IF items = <<>> THEN <<>>
    ELSE LET i == CHOOSE i \in 1..Len(items) :
                    /\ \A j \in 1..Len(items) : items[j][2] <= items[i][2]
                    /\ \A j \in 1..(i - 1) : items[j][2] < items[i][2]
         IN  <<items[i]>> \o SortedByCountDesc(SubSeq(items, 1, i - 1) \o SubSeq(items, i + 1, Len(items)))

\* sorted(items): ascending by key
RECURSIVE SortedByKey(_)
SortedByKey(items) ==
    IF items = <<>> THEN <<>>
    ELSE LET i == CHOOSE i \in 1..Len(items) : \A j \in 1..Len(items) : items[i][1] <= items[j][1]
         IN  <<items[i]>> \o SortedByKey(SubSeq(items, 1, i - 1) \o SubSeq(items, i + 1, Len(items)))

\* items[:n]
Take(items, n) == SubSeq(items, 1, IF Len(items) < n THEN Len(items) ELSE n)

RECURSIVE SortedByCountDescTiesReversed(_)
SortedByCountDescTiesReversed(items) ==
    IF items = <<>> THEN <<>>
    ELSE LET i == CHOOSE i \in 1..Len(items) :
                    /\ \A j \in 1..Len(items) : items[j][2] <= items[i][2]
                    /\ \A j \in (i + 1)..Len(items) : items[j][2] < items[i][2]
         IN  <<items[i]>> \o SortedByCountDescTiesReversed(
                                 SubSeq(items, 1, i - 1) \o SubSeq(items, i + 1, Len(items)))

most_common_ties_reversed(counter, n) == Take(SortedByCountDescTiesReversed(counter), n)

\* Counter.most_common(n): heapq.nlargest(n, items, key=count), which is
\* sorted(items, key=count, reverse=True)[:n]
most_common(counter, n) == Take(SortedByCountDesc(counter), n)

\* [entry for entry in es if entry.level in keep]
RECURSIVE Filter(_, _)
Filter(es, keep) ==
    IF es = <<>> THEN <<>>
    ELSE LET rest == Filter(SubSeq(es, 1, Len(es) - 1), keep)
         IN  IF es[Len(es)].level \in keep THEN Append(rest, es[Len(es)]) ELSE rest

(***************************************************************************)
(* LogAnalyzer._simplify_message                                           *)
(***************************************************************************)
IPPlaceholder == <<"X", ".", "X", ".", "X", ".", "X">>
NumberPlaceholder == <<"N">>

\* \d{1,3}\.\d{1,3}\.\d{1,3}\.\d{1,3} at position i: the position after the
\* match, or 0.  Each of the first three groups is the whole digit run up
\* to its dot and has at most three digits; the last group is greedy and
\* takes up to three digits.
DottedQuadEnd(s, i) ==
    LET e1 == RunEnd(s, i, Digit)
        e2 == RunEnd(s, e1 + 1, Digit)
        e3 == RunEnd(s, e2 + 1, Digit)
        e4 == RunEnd(s, e3 + 1, Digit)
    IN  IF /\ e1 - i \in 1..3 /\ CharAt(s, e1, ".")
           /\ e2 - (e1 + 1) \in 1..3 /\ CharAt(s, e2, ".")
           /\ e3 - (e2 + 1) \in 1..3 /\ CharAt(s, e3, ".")
           /\ e4 - (e3 + 1) >= 1
        THEN (IF e4 - (e3 + 1) > 3 THEN e3 + 4 ELSE e4)
        ELSE 0

\* \b\d+\b at position i: the position after the match, or 0
NumberEnd(s, i) ==
    LET e == RunEnd(s, i, Digit)
    IN  IF /\ e > i
           /\ (i = 1 \/ s[i - 1] \notin Word)
           /\ (e > Len(s) \/ s[e] \notin Word)
        THEN e
        ELSE 0

\* re.sub(r'\d{1,3}\.\d{1,3}\.\d{1,3}\.\d{1,3}', 'X.X.X.X', s), from position i
RECURSIVE SubDottedQuads(_, _)
SubDottedQuads(s, i) ==
    IF i > Len(s) THEN <<>>
    ELSE LET e == DottedQuadEnd(s, i)
         IN  IF e > 0 THEN IPPlaceholder \o SubDottedQuads(s, e)
             ELSE <<s[i]>> \o SubDottedQuads(s, i + 1)

\* re.sub(r'\b\d+\b', 'N', s), from position i
RECURSIVE SubNumbers(_, _)
SubNumbers(s, i) ==
    IF i > Len(s) THEN <<>>
    ELSE LET e == NumberEnd(s, i)
         IN  IF e > 0 THEN NumberPlaceholder \o SubNumbers(s, e)
             ELSE <<s[i]>> \o SubNumbers(s, i + 1)

_simplify_message_ips_only(message) == SubDottedQuads(message, 1)

_simplify_message(message) == SubNumbers(SubDottedQuads(message, 1), 1)

(***************************************************************************)
(* LogAnalyzer.analyze and the aggregations                                *)
(***************************************************************************)
TopErrorsLimit == 5
TopDevices == 10

\* [entry.level for entry in es]
Levels(es) == [i \in 1..Len(es) |-> es[i].level]

\* [entry.device for entry in es]
Devices(es) == [i \in 1..Len(es) |-> es[i].device]

\* [entry.timestamp.hour for entry in es]
Hours(es) == [i \in 1..Len(es) |-> es[i].timestamp.hour]

\* [self._simplify_message(entry.message) for entry in es]
SimplifiedMessages(es) == [i \in 1..Len(es) |-> _simplify_message(es[i].message)]

_calculate_date_range_first_last(es) == <<es[1].timestamp, es[Len(es)].timestamp>>

_calculate_date_range(es) ==
    LET first == CHOOSE i \in 1..Len(es) : \A j \in 1..Len(es) : NotAfter(es[i].timestamp, es[j].timestamp)
        last  == CHOOSE i \in 1..Len(es) : \A j \in 1..Len(es) : NotAfter(es[j].timestamp, es[i].timestamp)
    IN  <<es[first].timestamp, es[last].timestamp>>

_analyze_levels_zero_filled(es) ==
    LET c == Counter(Levels(es))
        Absent(l) == \A i \in 1..Len(c) : c[i][1] # l
        absent == SelectSeq(<<DEBUG, INFO, WARNING, ERROR, CRITICAL>>, Absent)
    IN  c \o [i \in 1..Len(absent) |-> <<absent[i], 0>>]

_analyze_levels(es) == Counter(Levels(es))

_analyze_devices_all(es) == Counter(Devices(es))

_analyze_devices(es) == most_common(Counter(Devices(es)), TopDevices)

_find_top_errors_all_levels(es, limit) ==
    most_common(Counter(SimplifiedMessages(es)), limit)

_find_top_errors(es, limit) ==
    most_common(Counter(SimplifiedMessages(Filter(es, {ERROR, CRITICAL}))), limit)

_errors_by_device_all_levels(es) ==
    Take(SortedByCountDesc(Counter(Devices(es))), TopDevices)

_errors_by_device(es) ==
    Take(SortedByCountDesc(Counter(Devices(Filter(es, {ERROR, CRITICAL})))), TopDevices)

_hourly_distribution_unsorted(es) == Counter(Hours(es))

_hourly_distribution(es) == SortedByKey(Counter(Hours(es)))

_find_critical_events_with_errors(es) == Filter(es, {ERROR, CRITICAL})

_find_critical_events(es) == Filter(es, {CRITICAL})

_empty_analysis_zeroed_levels(now) ==
    [total_entries |-> 0,
     date_range |-> <<now, now>>,
     level_distribution |-> <<<<DEBUG, 0>>, <<INFO, 0>>, <<WARNING, 0>>, <<ERROR, 0>>, <<CRITICAL, 0>>>>,
     device_distribution |-> <<>>,
     top_errors |-> <<>>,
     errors_by_device |-> <<>>,
     hourly_distribution |-> <<>>,
     critical_events |-> <<>>]

\* now is the value of datetime.now()
_empty_analysis(now) ==
    [total_entries |-> 0,
     date_range |-> <<now, now>>,
     level_distribution |-> <<>>,
     device_distribution |-> <<>>,
     top_errors |-> <<>>,
     errors_by_device |-> <<>>,
     hourly_distribution |-> <<>>,
     critical_events |-> <<>>]

analyze(es, now) ==
    IF es = <<>> THEN _empty_analysis(now)
    ELSE [total_entries |-> Len(es),
          date_range |-> _calculate_date_range(es),
          level_distribution |-> _analyze_levels(es),
          device_distribution |-> _analyze_devices(es),
          top_errors |-> _find_top_errors(es, TopErrorsLimit),
          errors_by_device |-> _errors_by_device(es),
          hourly_distribution |-> _hourly_distribution(es),
          critical_events |-> _find_critical_events(es)]

(***************************************************************************)
(* float: IEEE 754 binary64, round to nearest, ties to even.               *)
(* A float is [neg, exp, bits]: neg is the sign, bits the 53-bit           *)
(* significand, most significant bit first and set, and the magnitude is   *)
(* (bits read as an integer) * 2^(exp - 52).  0.0 has no bits.             *)
(***************************************************************************)
Precision == 53

Zero == [neg |-> FALSE, exp |-> 0, bits |-> <<>>]

Zeros(n) == [i \in 1..n |-> 0]

\* The binary digits of a non-negative int, most significant first
RECURSIVE BinaryOf(_)
BinaryOf(n) == IF n = 0 THEN <<>> ELSE Append(BinaryOf(n \div 2), n % 2)

\* float(n) of an int of magnitude below 2^53: exact
Float(n) ==
    IF n = 0 THEN Zero
    ELSE LET b == BinaryOf(IF n < 0 THEN -n ELSE n)
         IN  [neg |-> n < 0, exp |-> Len(b) - 1, bits |-> b \o Zeros(Precision - Len(b))]

\* bits + 1, on as many digits, for bits that are not all ones: the last 0
\* becomes 1 and the ones after it 0
Increment(bits) ==
    LET z == CHOOSE i \in 1..Len(bits) :
                 bits[i] = 0 /\ \A j \in (i + 1)..Len(bits) : bits[j] = 1
    IN  [i \in 1..Len(bits) |-> IF i < z THEN bits[i] ELSE IF i = z THEN 1 ELSE 0]

\* The float nearest to a value whose binary digits are sig (53 of them),
\* then guard, then digits of which sticky tells whether any is set
Round(neg, exp, sig, guard, sticky) ==
    IF guard = 1 /\ (sticky \/ sig[Precision] = 1)
    THEN IF \A i \in 1..Precision : sig[i] = 1
         THEN [neg |-> neg, exp |-> exp + 1, bits |-> <<1>> \o Zeros(Precision - 1)]
         ELSE [neg |-> neg, exp |-> exp, bits |-> Increment(sig)]
    ELSE [neg |-> neg, exp |-> exp, bits |-> sig]

\* Schoolbook division of the digits lo..hi of a binary numeral by the int
\* k, carrying the remainder r in: the quotient digits and the remainder
RECURSIVE LongDivision(_, _, _, _, _)
LongDivision(bits, lo, hi, k, r) ==
    IF lo > hi THEN [quot |-> <<>>, rem |-> r]
    ELSE IF lo = hi
    THEN LET v == (2 * r) + bits[lo]
             q == IF v >= k THEN 1 ELSE 0
         IN  [quot |-> <<q>>, rem |-> v - (q * k)]
    ELSE LET mid == (lo + hi) \div 2
             left == LongDivision(bits, lo, mid, k, r)
             right == LongDivision(bits, mid + 1, hi, k, left.rem)
         IN  [quot |-> left.quot \o right.quot, rem |-> right.rem]

\* x / k for a float x and an int k > 0 (k becomes the float k, exactly)
fdiv(x, k) ==
    IF x = Zero THEN Zero
    ELSE LET d == LongDivision(x.bits \o Zeros(Precision + 1), 1, (2 * Precision) + 1, k, 0)
             first == CHOOSE i \in 1..Len(d.quot) :
                          d.quot[i] = 1 /\ \A j \in 1..(i - 1) : d.quot[j] = 0
             sticky == d.rem # 0 \/ \E i \in (first + Precision + 1)..Len(d.quot) : d.quot[i] = 1
         IN  Round(x.neg, x.exp - (first - 1), SubSeq(d.quot, first, first + Precision - 1),
                   d.quot[first + Precision], sticky)

Reverse(s) == [i \in 1..Len(s) |-> s[Len(s) + 1 - i]]

\* Schoolbook multiplication of the digits lo..hi of a binary numeral,
\* written least significant digit first, by the int k, carrying c in: the
\* product digits, least significant first, and the carry out
RECURSIVE MulBits(_, _, _, _, _)
MulBits(digits, lo, hi, k, c) ==
    IF lo > hi THEN [prod |-> <<>>, carry |-> c]
    ELSE IF lo = hi
    THEN LET v == (digits[lo] * k) + c
         IN  [prod |-> <<v % 2>>, carry |-> v \div 2]
    ELSE LET mid == (lo + hi) \div 2
             low == MulBits(digits, lo, mid, k, c)
             high == MulBits(digits, mid + 1, hi, k, low.carry)
         IN  [prod |-> low.prod \o high.prod, carry |-> high.carry]

\* x * k for a float x and an int k > 0 (k becomes the float k, exactly)
fmul(x, k) ==
    IF x = Zero THEN Zero
    ELSE LET m == MulBits(Reverse(x.bits), 1, Precision, k, 0)
             p == BinaryOf(m.carry) \o Reverse(m.prod) \o <<0>>
             sticky == \E i \in (Precision + 2)..Len(p) : p[i] = 1
         IN  Round(x.neg, x.exp + (Len(p) - 1 - Precision), SubSeq(p, 1, Precision),
                   p[Precision + 1], sticky)

error_rate_without_critical(a) ==
    LET errors == Get(a.level_distribution, ERROR, 0)
    IN  IF a.total_entries > 0
        THEN fmul(fdiv(Float(errors), a.total_entries), 100)
        ELSE Zero

\* LogAnalysis.error_rate: int / int is the correctly rounded quotient of
\* the two ints, and the product with 100 is rounded once more
error_rate(a) ==
    LET errors == Get(a.level_distribution, ERROR, 0)
        critical == Get(a.level_distribution, CRITICAL, 0)
    IN  IF a.total_entries > 0
        THEN fmul(fdiv(Float(errors + critical), a.total_entries), 100)
        ELSE Zero

\* date.toordinal(): the number of days from 0001-01-01, which is day 1
DaysBeforeYear(y) ==
    LET p == y - 1
    IN  (p * 365) + (p \div 4) - (p \div 100) + (p \div 400)

RECURSIVE DaysBeforeMonth(_, _)
DaysBeforeMonth(y, m) ==
    IF m = 1 THEN 0 ELSE DaysBeforeMonth(y, m - 1) + DaysInMonth(y, m - 1)

toordinal(t) == DaysBeforeYear(t.year) + DaysBeforeMonth(t.year, t.month) + t.day

\* datetime.__sub__: the timedelta a - b, normalized to 0 <= seconds < 86400
\* (the timestamps carry no microseconds)
Subtract(a, b) ==
    LET days == toordinal(a) - toordinal(b)
        secs == ((a.hour * 3600) + (a.minute * 60) + a.second)
                    - ((b.hour * 3600) + (b.minute * 60) + b.second)
    IN  IF secs < 0 THEN [days |-> days - 1, seconds |-> secs + 86400]
        ELSE [days |-> days, seconds |-> secs]

\* timedelta.total_seconds(): ((days * 86400 + seconds) * 10**6 +
\* microseconds) / 10**6, the float of a whole number of seconds
total_seconds(td) == Float((td.days * 86400) + td.seconds)

\* LogAnalysis.duration_hours
duration_hours(a) ==
    LET start == a.date_range[1]
        end == a.date_range[2]
    IN  fdiv(total_seconds(Subtract(end, start)), 3600)

(***************************************************************************)
(* float and int arithmetic of the reports                                 *)
(***************************************************************************)
\* The int a binary numeral stands for, most significant digit first
RECURSIVE ValueOf(_)
ValueOf(bits) ==
    IF bits = <<>> THEN 0 ELSE (2 * ValueOf(SubSeq(bits, 1, Len(bits) - 1))) + bits[Len(bits)]

\* |x| * k, exactly, for a float x of magnitude below 2^52 and an int
\* k > 0, cut at the binary point: the whole part, the first digit after
\* the point, and whether any later digit is set
Scaled(x, k) ==
    IF x = Zero THEN [whole |-> 0, half |-> 0, rest |-> FALSE]
    ELSE LET m == MulBits(Reverse(x.bits), 1, Precision, k, 0)
             frac == (Precision - 1) - x.exp
             p == BinaryOf(m.carry) \o Reverse(m.prod)
             q == Zeros((frac + 1) - Len(p)) \o p
             n == Len(q) - frac
         IN  [whole |-> ValueOf(SubSeq(q, 1, n)),
              half |-> IF frac > 0 THEN q[n + 1] ELSE 0,
              rest |-> \E i \in (n + 2)..Len(q) : q[i] = 1]

\* int(x): truncation towards zero
int(x) == IF x.neg THEN -Scaled(x, 1).whole ELSE Scaled(x, 1).whole

\* round(x, ndigits) of a float: the float nearest to the decimal of
\* ndigits places nearest to x, a tie going to the even last place
round(x, ndigits) ==
    LET s == Scaled(x, 10^ndigits)
        n == s.whole + (IF s.half = 1 /\ (s.rest \/ s.whole % 2 = 1) THEN 1 ELSE 0)
    IN  fdiv(Float(IF x.neg THEN -n ELSE n), 10^ndigits)

\* x > n for a float x and an int n >= 0
Above(x, n) ==
    /\ ~x.neg
    /\ LET s == Scaled(x, 1)
       IN  s.whole > n \/ (s.whole = n /\ (s.half = 1 \/ s.rest))

\* x < n for a float x and an int n >= 1
Below(x, n) == x.neg \/ Scaled(x, 1).whole < n

\* The floats the literals 0.7 and 0.4 stand for
Literal07 ==
    [neg |-> FALSE, exp |-> -1,
     bits |-> <<1>> \o [i \in 1..(Precision - 1) |-> <<0, 1, 1, 0>>[((i - 1) % 4) + 1]]]

Literal04 ==
    [neg |-> FALSE, exp |-> -2,
     bits |-> <<1>> \o [i \in 1..(Precision - 1) |->
                           IF i = Precision - 2 THEN 1
                           ELSE IF i = Precision - 1 THEN 0
                           ELSE <<1, 0, 0, 1>>[((i - 1) % 4) + 1]]]

\* count > max_count * literal, an int against a float that is not negative
Exceeds(count, max_count, literal) == count > Scaled(fmul(literal, max_count), 1).whole

\* max(dict.values()) of a dict that is not empty
MaxValue(dict) ==
    LET values == {dict[i][2] : i \in 1..Len(dict)}
    IN  CHOOSE v \in values : \A w \in values : w <= v

(***************************************************************************)
(* Reporter.  A report is the sequence of the items written, each with     *)
(* the values its cells are formatted from; the colours chosen from a      *)
(* value are kept, the fixed decoration (emoji, borders, padding) is not.  *)
(* A rendering is [ok, out]: what was written, and whether the call        *)
(* returned (ok) or was left by the exception error.                       *)
(***************************************************************************)
Written(out) == [ok |-> TRUE, out |-> out]

Raised(error, out) == [ok |-> FALSE, error |-> error, out |-> out]

\* Two renderings one after the other: the second runs when the first
\* returned
Then(first, second) ==
    IF first.ok
    THEN IF second.ok THEN Written(first.out \o second.out)
         ELSE Raised(second.error, first.out \o second.out)
    ELSE first

\* message[:n] + "..." if len(message) > n else message
Shortened(message, n) ==
    IF Len(message) > n THEN SubSeq(message, 1, n) \o <<".", ".", ".">> ELSE message

\* Reporter._format_duration: the number and its unit
_format_duration(a) ==
    LET hours == duration_hours(a)
    IN  IF Below(hours, 1) THEN <<int(fmul(hours, 60)), "minutes">>
        ELSE IF Below(hours, 24) THEN <<hours, "hours">>
        ELSE <<fdiv(hours, 24), "days">>

\* Reporter._get_severity_color
_get_severity_color(rate) ==
    IF Above(rate, 20) THEN "red"
    ELSE IF Above(rate, 10) THEN "yellow"
    ELSE IF Above(rate, 5) THEN "orange1"
    ELSE "green"

\* Reporter._get_level_color
_get_level_color(level) ==
    IF level = CRITICAL THEN "red bold"
    ELSE IF level = ERROR THEN "red"
    ELSE IF level = WARNING THEN "yellow"
    ELSE IF level = INFO THEN "blue"
    ELSE IF level = DEBUG THEN "dim white"
    ELSE "white"

\* strftime('%Y-%m-%d %H:%M') and strftime('%H:%M'): the fields shown
Minute(t) == <<t.year, t.month, t.day, t.hour, t.minute>>

HourMinute(t) == <<t.hour, t.minute>>

\* Reporter._display_summary
_display_summary(a) ==
    Written(<<[item |-> "Summary",
               total_entries |-> a.total_entries,
               time_range |-> <<Minute(a.date_range[1]), HourMinute(a.date_range[2])>>,
               duration |-> _format_duration(a),
               error_rate |-> error_rate(a),
               rate_color |-> _get_severity_color(error_rate(a)),
               rate_mark |-> IF Above(error_rate(a), 20) THEN "red"
                             ELSE IF Above(error_rate(a), 5) THEN "yellow" ELSE "green"]>>)

\* severity_order.get(level, 99)
severity_order(level) ==
    IF level = CRITICAL THEN 0
    ELSE IF level = ERROR THEN 1
    ELSE IF level = WARNING THEN 2
    ELSE IF level = INFO THEN 3
    ELSE IF level = DEBUG THEN 4
    ELSE 99

\* sorted(items, key=severity): ascending, items of equal severity in their
\* original order
RECURSIVE SortedBySeverity(_)
SortedBySeverity(items) ==
    IF items = <<>> THEN <<>>
    ELSE LET i == CHOOSE i \in 1..Len(items) :
                    /\ \A j \in 1..Len(items) :
                          severity_order(items[i][1]) <= severity_order(items[j][1])
                    /\ \A j \in 1..(i - 1) :
                          severity_order(items[i][1]) < severity_order(items[j][1])
         IN  <<items[i]>> \o SortedBySeverity(SubSeq(items, 1, i - 1) \o SubSeq(items, i + 1, Len(items)))

\* int((count / max_count) * width), the length of a bar
bar_length(count, max_count, width) == int(fmul(fdiv(Float(count), max_count), width))

\* (count / total * 100)
percentage(count, total) == fmul(fdiv(Float(count), total), 100)

\* Reporter._display_level_distribution: the heading is printed, then one
\* line for each level; the first line divides by total_entries and by
\* the largest count
_display_level_distribution(a) ==
    IF a.level_distribution = <<>> THEN Written(<<>>)
    ELSE LET sorted_levels == SortedBySeverity(a.level_distribution)
             total == a.total_entries
             max_count == MaxValue(a.level_distribution)
             heading == [item |-> "Level Distribution"]
         IN  IF total = 0 \/ max_count = 0
             THEN Raised("ZeroDivisionError", <<heading>>)
             ELSE Written(<<heading>> \o
                     [i \in 1..Len(sorted_levels) |->
                         [item |-> "level",
                          level |-> sorted_levels[i][1],
                          color |-> _get_level_color(sorted_levels[i][1]),
                          bar |-> bar_length(sorted_levels[i][2], max_count, 40),
                          count |-> sorted_levels[i][2],
                          percentage |-> percentage(sorted_levels[i][2], total)]])

\* Reporter._display_top_devices: a table of the first 5 devices, printed
\* once every row is built
_display_top_devices(a) ==
    IF a.device_distribution = <<>> THEN Written(<<>>)
    ELSE LET max_count == MaxValue(a.device_distribution)
             shown == Take(a.device_distribution, 5)
         IN  IF max_count = 0 THEN Raised("ZeroDivisionError", <<>>)
             ELSE Written(<<[item |-> "Top Devices by Activity",
                             rows |-> [i \in 1..Len(shown) |->
                                          <<i, shown[i][1], shown[i][2],
                                            bar_length(shown[i][2], max_count, 20)>>]]>>)

\* Reporter._display_top_errors
_display_top_errors(a) ==
    IF a.top_errors = <<>> THEN Written(<<>>)
    ELSE Written(<<[item |-> "Top 5 Most Frequent Errors",
                    rows |-> [i \in 1..Len(a.top_errors) |->
                                 <<i, Shortened(a.top_errors[i][1], 70), a.top_errors[i][2]>>]]>>)

\* Reporter._display_error_devices
_display_error_devices(a) ==
    IF a.errors_by_device = <<>> THEN Written(<<[item |-> "No errors found"]>>)
    ELSE LET max_errors == MaxValue(a.errors_by_device)
             shown == Take(a.errors_by_device, 5)
         IN  IF max_errors = 0 THEN Raised("ZeroDivisionError", <<>>)
             ELSE Written(<<[item |-> "Devices with Most Errors",
                             rows |-> [i \in 1..Len(shown) |->
                                          <<shown[i][1], shown[i][2],
                                            bar_length(shown[i][2], max_errors, 15)>>]]>>)

\* for hour in range(24): the hours whose count is not 0, in order
RECURSIVE ShownHours(_, _)
ShownHours(dict, hour) ==
    IF hour < 0 THEN <<>>
    ELSE LET before == ShownHours(dict, hour - 1)
         IN  IF Get(dict, hour, 0) = 0 THEN before ELSE Append(before, hour)

\* Reporter._display_hourly_distribution: the heading is printed, then one
\* line for each hour of 0..23 that has entries
_display_hourly_distribution(a) ==
    IF a.hourly_distribution = <<>> THEN Written(<<>>)
    ELSE LET max_count == MaxValue(a.hourly_distribution)
             hours == ShownHours(a.hourly_distribution, 23)
             heading == [item |-> "Hourly Distribution"]
         IN  IF hours # <<>> /\ max_count = 0
             THEN Raised("ZeroDivisionError", <<heading>>)
             ELSE Written(<<heading>> \o
                     [i \in 1..Len(hours) |->
                         LET count == Get(a.hourly_distribution, hours[i], 0)
                         IN  [item |-> "hour",
                              hour |-> hours[i],
                              bar |-> bar_length(count, max_count, 30),
                              color |-> IF Exceeds(count, max_count, Literal07) THEN "red"
                                        ELSE IF Exceeds(count, max_count, Literal04) THEN "yellow"
                                        ELSE "green",
                              count |-> count]])

\* Reporter._display_critical_events
_display_critical_events(a) ==
    LET shown == Take(a.critical_events, 10)
    IN  Written(<<[item |-> "Critical Events",
                   rows |-> [i \in 1..Len(shown) |->
                                <<shown[i].timestamp, shown[i].device,
                                  Shortened(shown[i].message, 60)>>]]>>)

\* Reporter.display_console
display_console(a) ==
    Then(Written(<<[item |-> "Network Log Analysis Report"]>>),
    Then(_display_summary(a),
    Then(_display_level_distribution(a),
    Then(_display_top_devices(a),
    Then(_display_top_errors(a),
    Then(_display_error_devices(a),
    Then(_display_hourly_distribution(a),
         IF a.critical_events # <<>> THEN _display_critical_events(a) ELSE Written(<<>>))))))))

\* Reporter._save_text: the file is opened, then written piece by piece
_save_text(a) ==
    LET levels == SortedByCountDesc(a.level_distribution)
        head == <<[item |-> "NETWORK LOG ANALYSIS REPORT",
                   total_entries |-> a.total_entries,
                   time_range |-> a.date_range,
                   duration |-> _format_duration(a),
                   error_rate |-> error_rate(a)],
                  [item |-> "LEVEL DISTRIBUTION"]>>
        devices == Take(a.errors_by_device, 10)
    IN  IF levels # <<>> /\ a.total_entries = 0
        THEN Raised("ZeroDivisionError", head)
        ELSE Written(
                head
                \o [i \in 1..Len(levels) |->
                       [item |-> "level", level |-> levels[i][1], count |-> levels[i][2],
                        pct |-> percentage(levels[i][2], a.total_entries)]]
                \o (IF a.errors_by_device # <<>>
                    THEN <<[item |-> "DEVICES WITH ERRORS", rows |-> devices]>> ELSE <<>>)
                \o (IF a.top_errors # <<>>
                    THEN <<[item |-> "TOP ERRORS",
                            rows |-> [i \in 1..Len(a.top_errors) |->
                                         <<i, a.top_errors[i][2], a.top_errors[i][1]>>]]>>
                    ELSE <<>>))

\* Reporter._save_json: data is built, then the file is opened and written
_save_json(a) ==
    Written(<<[summary |-> [total_entries |-> a.total_entries,
                            date_range |-> [start |-> a.date_range[1], end |-> a.date_range[2]],
                            duration_hours |-> round(duration_hours(a), 2),
                            error_rate |-> round(error_rate(a), 2)],
               level_distribution |-> a.level_distribution,
               device_distribution |-> Take(a.device_distribution, 20),
               top_errors |-> [i \in 1..Len(a.top_errors) |->
                                  [message |-> a.top_errors[i][1], count |-> a.top_errors[i][2]]],
               errors_by_device |-> a.errors_by_device,
               hourly_distribution |-> a.hourly_distribution,
               critical_events_count |-> Len(a.critical_events)]>>)

\* Reporter._save_html: the page is built, then the file is opened and
\* written; a ZeroDivisionError leaves before the file is opened
_save_html(a) ==
    LET levels == SortedByCountDesc(a.level_distribution)
        devices == Take(a.errors_by_device, 10)
    IN  IF levels # <<>> /\ a.total_entries = 0
        THEN Raised("ZeroDivisionError", <<>>)
        ELSE Written(<<[item |-> "Network Log Analysis",
                        total_entries |-> a.total_entries,
                        duration |-> _format_duration(a),
                        error_rate |-> error_rate(a),
                        time_range |-> <<HourMinute(a.date_range[1]), HourMinute(a.date_range[2])>>,
                        levels |-> [i \in 1..Len(levels) |->
                                       <<levels[i][1], levels[i][2],
                                         percentage(levels[i][2], a.total_entries),
                                         percentage(levels[i][2], a.total_entries)>>],
                        devices |-> devices,
                        generated_on |-> a.date_range[1]]>>)

\* Reporter.save: the method the format selects
save(a, format_type) ==
    IF format_type = "json" THEN _save_json(a)
    ELSE IF format_type = "html" THEN _save_html(a)
    ELSE _save_text(a)

(***************************************************************************)
(* The entry lists LogAnalyzer is constructed on                           *)
(***************************************************************************)
Stamp(y, mo, d, h, mi, sec) ==
    [year |-> y, month |-> mo, day |-> d, hour |-> h, minute |-> mi, second |-> sec]

Entry(timestamp, level, device, message) ==
    [timestamp |-> timestamp, level |-> level, device |-> device, message |-> message]

F3 == <<"F", "3">>
A4 == <<"A", "4">>

MsgTo192 == <<"t", "o", " ", "1", "9", "2", ".", "1", "6", "8", ".", "1", ".", "1">>
MsgPort8 == <<"p", "o", "r", "t", " ", "8", " ", "d", "o", "w", "n">>
MsgPort16 == <<"p", "o", "r", "t", " ", "1", "6", " ", "d", "o", "w", "n">>
MsgGi == <<"G", "i", "0", "/", "1", " ", "v", "1", ".", "2", ".", "3", ".", "4">>
MsgBgp == <<"b", "g", "p">>
MsgOspf == <<"o", "s", "p", "f">>
MsgStp == <<"s", "t", "p">>
MsgPsu == <<"p", "s", "u">>

\* The entries appended one by one to an entry list: two timeouts that
\* differ in the address, two port failures that differ in the number (and
\* an INFO entry with the message of the first), and a message whose digits
\* are glued to letters.
Pool ==
    << Entry(Stamp(2024, 12, 4, 8, 0, 0), ERROR, R1, MsgTo192),
       Entry(Stamp(2024, 12, 4, 10, 0, 0), CRITICAL, S2, MsgTo),
       Entry(Stamp(2024, 12, 5, 0, 30, 0), ERROR, R1, MsgPort8),
       Entry(Stamp(2024, 12, 4, 8, 15, 0), ERROR, F3, MsgPort16),
       Entry(Stamp(2024, 12, 3, 23, 59, 59), INFO, S2, MsgPort8),
       Entry(Stamp(2024, 12, 4, 8, 30, 0), ERROR, A4, MsgGi) >>

BulkMessages == <<MsgOspf, MsgBgp, MsgBgp, MsgStp, MsgBgp, MsgPsu, MsgBgp, MsgBgp, MsgBgp>>

\* Nine error entries of nine devices P1..P9, one per hour from 11:00, with
\* four different messages (the second one six times, the others once)
Bulk ==
    [k \in 1..9 |->
        Entry(Stamp(2024, 12, 4, 10 + k, 0, 0), IF k = 2 THEN CRITICAL ELSE ERROR,
              <<"P", DigitChars[k + 1]>>, BulkMessages[k])]

MaxAdded == 3
MaxAnalyses == 2

Added == UNION {[1..n -> 1..Len(Pool)] : n \in 0..MaxAdded}

\* The entry lists: nothing or the nine bulk entries, followed by up to
\* MaxAdded entries of the pool in any order
Inputs == {start \o [i \in 1..Len(a) |-> Pool[a[i]]] : start \in {<<>>, Bulk}, a \in Added}

\* The values datetime.now() returns
Nows == {Stamp(2026, 1, 1, 0, 0, 0), Stamp(2026, 1, 1, 0, 0, 1)}

\* LogAnalyzer.__init__(entries)
InitAnalyzer ==
    /\ file = <<>>
    /\ pc = "idle"
    /\ runs = 0
    /\ line_num = 0
    /\ handle_open = FALSE
    /\ entries = <<>>
    /\ _errors = <<>>
    /\ an_entries \in Inputs
    /\ snapshots = <<>>
    /\ NoCommand

AnalyzeStoringKeys ==
    /\ Len(snapshots) < MaxAnalyses
    /\ \E now \in Nows : snapshots' = Append(snapshots, analyze(an_entries, now))
    /\ an_entries' = [i \in 1..Len(an_entries) |->
                          [an_entries[i] EXCEPT !.message = _simplify_message(@)]]
    /\ UNCHANGED <<file, pc, runs, line_num, handle_open, entries, _errors>>

\* LogAnalyzer.analyze()
Analyze ==
    /\ Len(snapshots) < MaxAnalyses
    /\ \E now \in Nows : snapshots' = Append(snapshots, analyze(an_entries, now))
    /\ UNCHANGED <<file, pc, runs, line_num, handle_open, entries, _errors, an_entries>>

NextAnalyzer == Analyze /\ UNCHANGED commandVars

SpecAnalyzer == InitAnalyzer /\ [][NextAnalyzer]_vars

(***************************************************************************)
(* Reporter on the analysis it was constructed with                        *)
(***************************************************************************)
MaxReported == 1
MaxReports == 1

\* The entry lists whose analysis is reported: nothing or the nine bulk
\* entries, followed by up to MaxReported entries of the pool
ReportedInputs ==
    {start \o [i \in 1..Len(a) |-> Pool[a[i]]] :
        start \in {<<>>, Bulk}, a \in UNION {[1..n -> 1..Len(Pool)] : n \in 0..MaxReported}}

\* The paths given as --output, and to Reporter.save
Paths ==
    { <<"r", ".", "j", "s", "o", "n">>,
      <<"o", "/", "r", ".", "H", "T", "M", "L">>,
      <<"r", ".", "t", "x", "t">>,
      <<"r">> }

LowerChar(c) ==
    IF c \in Range(UpperChars)
    THEN LowerChars[CHOOSE i \in 1..26 : UpperChars[i] = c]
    ELSE c

\* str.lower()
StrLower(s) == [i \in 1..Len(s) |-> LowerChar(s[i])]

\* The last position of the character in the text, 0 when it is not there
RECURSIVE LastIndex(_, _)
LastIndex(s, c) ==
    IF s = <<>> THEN 0
    ELSE IF s[Len(s)] = c THEN Len(s)
    ELSE LastIndex(SubSeq(s, 1, Len(s) - 1), c)

\* Path.name: the last component
name(path) == Slice(path, LastIndex(path, "/") + 1, Len(path))

\* Path.suffix: the name from its last dot on, when that dot is neither its
\* first nor its last character
suffix(path) ==
    LET n == name(path)
        i == LastIndex(n, ".")
    IN  IF 1 < i /\ i < Len(n) THEN SubSeq(n, i, Len(n)) ELSE <<>>

\* The values given as --format, and to Reporter.save
Formats == {"console", "text", "json", "html", "xml"}

\* The paths Reporter.save is called with
SavePaths == {p \in Paths : suffix(p) = <<>>}

\* Reporter.__init__(analysis), on the analysis of an entry list
InitReporter ==
    /\ file = <<>>
    /\ pc = "idle"
    /\ runs = 0
    /\ line_num = 0
    /\ handle_open = FALSE
    /\ entries = <<>>
    /\ _errors = <<>>
    /\ an_entries \in ReportedInputs
    /\ \E now \in Nows : snapshots = <<analyze(an_entries, now)>>
    /\ NoCommand

\* The call of a method of Reporter ended as the rendering r tells: what
\* it printed is on the console, and failure is the exception that left it
Shown(r) ==
    /\ console' = console \o r.out
    /\ failure' = IF r.ok THEN "none" ELSE r.error

\* Reporter.display_console(): what was printed before an exception stays
\* on the console
DisplayConsole ==
    /\ reports < MaxReports
    /\ reports' = reports + 1
    /\ Shown(display_console(snapshots[Len(snapshots)]))
    /\ UNCHANGED <<parserVars, analyzerVars, command, quiet, output, format, step,
                   exit_code, exists, saved>>

\* The file a method of Reporter.save leaves at the path: _save_text opens
\* it before the first division, _save_json and _save_html only once
\* everything is computed
Stored(output_path, format_type, r) ==
    IF r.ok \/ format_type \notin {"json", "html"}
    THEN saved' = <<[path |-> output_path, format |-> format_type, content |-> r.out]>>
    ELSE saved' = saved

\* The rendering of Reporter.save around the method r of the format: the
\* path is printed when the method returned
Saved(output_path, r) ==
    IF r.ok
    THEN Written(<<[item |-> "Report saved to", path |-> output_path]>>)
    ELSE Raised(r.error, <<>>)

\* Reporter.save(output_path, format_type)
Save ==
    /\ reports < MaxReports
    /\ reports' = reports + 1
    /\ \E output_path \in SavePaths, format_type \in Formats \ {"console"} :
          /\ Stored(output_path, format_type, save(snapshots[Len(snapshots)], format_type))
          /\ Shown(Saved(output_path, save(snapshots[Len(snapshots)], format_type)))
    /\ UNCHANGED <<parserVars, analyzerVars, command, quiet, output, format, step,
                   exit_code, exists>>

\* Reporter.save(output_path, format_type): open(path, "w") raises, and
\* nothing is written or printed
SaveFails ==
    /\ reports < MaxReports
    /\ reports' = reports + 1
    /\ failure' = "OSError"
    /\ UNCHANGED <<parserVars, analyzerVars, command, quiet, output, format, step,
                   exit_code, exists, console, saved>>

NextReporter == DisplayConsole \/ Save \/ SaveFails

SpecReporter == InitReporter /\ [][NextReporter]_vars

(***************************************************************************)
(* main: the commands analyze and demo                                     *)
(***************************************************************************)
\* The files the commands are run on: no line, one line of the catalogue,
\* or the sample log
CommandFiles == {<<>>} \cup {<<i>> : i \in LineIds} \cup {demo_content}

\* The options of analyze: --output (<<>> is None), --format, --quiet
Outputs == {<<>>} \cup {<<p>> : p \in Paths}

\* items, when the condition holds
Printed(condition, items) == IF condition THEN items ELSE <<>>

\* The command line: a command with its options, a file at its path (the
\* path given to analyze exists; the sample log of demo may be missing)
InitCommand ==
    /\ pc = "idle"
    /\ runs = 0
    /\ line_num = 0
    /\ handle_open = FALSE
    /\ entries = <<>>
    /\ _errors = <<>>
    /\ an_entries = <<>>
    /\ snapshots = <<>>
    /\ step = "start"
    /\ exit_code = <<>>
    /\ console = <<>>
    /\ saved = <<>>
    /\ failure = "none"
    /\ reports = 0
    /\ quiet \in BOOLEAN
    /\ \/ /\ command = "analyze"
          /\ exists = TRUE
          /\ file \in CommandFiles
          /\ output \in Outputs
          /\ format \in Formats
       \/ /\ command = "demo"
          /\ output = <<>>
          /\ format = "console"
          /\ \/ exists = TRUE /\ file \in CommandFiles
             \/ exists = FALSE /\ file = <<>>

\* analyze, up to the construction of LogParser
AnalyzeStart ==
    /\ command = "analyze"
    /\ step = "start"
    /\ step' = "parse"
    /\ console' = console \o Printed(~quiet, <<[item |-> "Parsing log file"]>>)
    /\ UNCHANGED <<parserVars, analyzerVars, command, quiet, output, format, exit_code,
                   exists, saved, failure, reports>>

\* _create_demo_file: path.write_text(demo_content)
_create_demo_file ==
    /\ file' = demo_content
    /\ exists' = TRUE

\* demo, up to the construction of LogParser: the sample log is written
\* when sample_logs/network_demo.log does not exist
DemoStart ==
    /\ command = "demo"
    /\ step = "start"
    /\ step' = "parse"
    /\ IF ~exists THEN _create_demo_file ELSE UNCHANGED <<file, exists>>
    /\ console' = console
                    \o Printed(~exists, <<[item |-> "Demo file not found"],
                                          [item |-> "Created demo file"]>>)
                    \o Printed(~quiet, <<[item |-> "NetMonitor Demo"]>>)
    /\ UNCHANGED <<pc, runs, line_num, handle_open, entries, _errors, analyzerVars,
                   command, quiet, output, format, exit_code, saved, failure, reports>>

\* entries = parser.parse(), step by step
CommandParse ==
    /\ step = "parse"
    /\ \/ pc = "idle" /\ ParseOpen
       \/ pc = "idle" /\ ParseOpenFails
       \/ ParseLine
       \/ ParseReadFails
       \/ ParseReturn
    /\ UNCHANGED commandVars

\* parse() raised: except FileNotFoundError and except Exception of analyze,
\* except Exception of demo; each ends with typer.Exit(code=1)
CommandParseRaised ==
    /\ step = "parse"
    /\ pc = "raised"
    /\ step' = "exited"
    /\ exit_code' = <<1>>
    /\ \E error \in {"FileNotFoundError", "PermissionError", "UnicodeDecodeError"} :
          /\ failure' = error
          /\ console' = console \o
                IF command = "demo" THEN <<[item |-> "Demo failed", error |-> error]>>
                ELSE IF error = "FileNotFoundError" THEN <<[item |-> "File not found"]>>
                ELSE <<[item |-> "Error", error |-> error]>>
                         \o Printed(~quiet, <<[item |-> "traceback", error |-> error]>>)
    /\ UNCHANGED <<parserVars, analyzerVars, command, quiet, output, format, exists,
                   saved, reports>>

\* analyze: if not entries, typer.Exit(code=1) is raised inside the try; it
\* is a RuntimeError, so except Exception catches it and raises
\* typer.Exit(code=1) again
AnalyzeNoEntries ==
    /\ command = "analyze"
    /\ step = "parse"
    /\ pc = "returned"
    /\ entries = <<>>
    /\ step' = "exited"
    /\ exit_code' = <<1>>
    /\ failure' = "Exit"
    /\ console' = console \o <<[item |-> "No valid log entries found!"],
                               [item |-> "Error", error |-> "Exit"]>>
                          \o Printed(~quiet, <<[item |-> "traceback", error |-> "Exit"]>>)
    /\ UNCHANGED <<parserVars, analyzerVars, command, quiet, output, format, exists,
                   saved, reports>>

\* parse() returned the entries the command goes on with (any for demo, at
\* least one for analyze): analyzer = LogAnalyzer(entries)
CommandEntries ==
    /\ step = "parse"
    /\ pc = "returned"
    /\ command = "analyze" => entries # <<>>
    /\ step' = "analyze"
    /\ an_entries' = entries
    /\ console' = console \o
          IF command = "demo"
          THEN Printed(~quiet, <<[item |-> "Loaded sample entries", count |-> Len(entries)]>>)
          ELSE Printed(~quiet, <<[item |-> "Parsed entries", count |-> Len(entries)]>>
                                  \o Printed(error_count > 0,
                                             <<[item |-> "lines had parsing errors",
                                                count |-> error_count]>>)
                                  \o <<[item |-> "Analyzing logs..."]>>)
    /\ UNCHANGED <<parserVars, snapshots, command, quiet, output, format, exit_code,
                   exists, saved, failure, reports>>

\* analysis = analyzer.analyze(); reporter = Reporter(analysis)
CommandAnalysis ==
    /\ step = "analyze"
    /\ step' = "report"
    /\ Analyze
    /\ console' = console \o
          Printed(command = "analyze" /\ ~quiet,
                  <<[item |-> "Analysis complete",
                     error_rate |-> error_rate(snapshots'[Len(snapshots')])]>>)
    /\ UNCHANGED <<command, quiet, output, format, exit_code, exists, saved, failure, reports>>

\* The command ended with the call of Reporter that rendered r: the
\* function returns, or the except clause prints the exception and raises
\* typer.Exit(code=1)
Ended(before, r, after) ==
    IF r.ok
    THEN /\ console' = console \o before \o r.out \o Printed(~quiet, after)
         /\ exit_code' = <<0>>
         /\ UNCHANGED failure
    ELSE /\ console' = console \o before \o r.out \o
               IF command = "demo" THEN <<[item |-> "Demo failed", error |-> r.error]>>
               ELSE <<[item |-> "Error", error |-> r.error]>>
                        \o Printed(~quiet, <<[item |-> "traceback", error |-> r.error]>>)
         /\ exit_code' = <<1>>
         /\ failure' = r.error

\* analyze with no --output and format "console", and demo:
\* reporter.display_console()
ReportConsole ==
    /\ step = "report"
    /\ output = <<>> /\ format = "console"
    /\ step' = "exited"
    /\ reports' = reports + 1
    /\ Ended(<<>>, display_console(snapshots[Len(snapshots)]),
             IF command = "demo" THEN <<[item |-> "Tip"]>> ELSE <<[item |-> "Done!"]>>)
    /\ UNCHANGED <<parserVars, analyzerVars, command, quiet, output, format, exists, saved>>

\* A variant of format_of that reads the suffix as it is written
format_of_exact_suffix(given, path) ==
    IF given = "console"
    THEN LET s == suffix(path)
         IN  IF s = <<".", "j", "s", "o", "n">> THEN "json"
             ELSE IF s = <<".", "h", "t", "m", "l">> THEN "html"
             ELSE "text"
    ELSE given

\* The format analyze saves in: "console" is replaced by the one the suffix
\* of the path stands for
format_of(given, path) ==
    IF given = "console"
    THEN LET s == StrLower(suffix(path))
         IN  IF s = <<".", "j", "s", "o", "n">> THEN "json"
             ELSE IF s = <<".", "h", "t", "m", "l">> THEN "html"
             ELSE "text"
    ELSE given

\* analyze with --output: reporter.save(output, format_type=format)
ReportSave ==
    /\ step = "report"
    /\ output # <<>>
    /\ step' = "exited"
    /\ reports' = reports + 1
    /\ format' = format_of(format, output[1])
    /\ Stored(output[1], format', save(snapshots[Len(snapshots)], format'))
    /\ Ended(Printed(~quiet, <<[item |-> "Exporting report..."]>>),
             Saved(output[1], save(snapshots[Len(snapshots)], format')),
             <<[item |-> "Report saved to", path |-> output[1]], [item |-> "Done!"]>>)
    /\ UNCHANGED <<parserVars, analyzerVars, command, quiet, output, exists>>

\* analyze with --output: open(path, "w") raises, nothing is written and
\* except Exception ends the command
ReportSaveFails ==
    /\ step = "report"
    /\ output # <<>>
    /\ step' = "exited"
    /\ reports' = reports + 1
    /\ format' = format_of(format, output[1])
    /\ Ended(Printed(~quiet, <<[item |-> "Exporting report..."]>>), Raised("OSError", <<>>), <<>>)
    /\ UNCHANGED <<parserVars, analyzerVars, command, quiet, output, exists, saved>>

\* analyze with a format other than "console" and no --output: the else
\* branch raises typer.Exit(code=1), which except Exception catches
ReportNoOutput ==
    /\ step = "report"
    /\ output = <<>> /\ format # "console"
    /\ step' = "exited"
    /\ exit_code' = <<1>>
    /\ failure' = "Exit"
    /\ console' = console \o <<[item |-> "--output required when using --format"],
                               [item |-> "Error", error |-> "Exit"]>>
                          \o Printed(~quiet, <<[item |-> "traceback", error |-> "Exit"]>>)
    /\ UNCHANGED <<parserVars, analyzerVars, command, quiet, output, format, exists,
                   saved, reports>>

NextCommand ==
    \/ AnalyzeStart
    \/ DemoStart
    \/ CommandParse
    \/ CommandParseRaised
    \/ AnalyzeNoEntries
    \/ CommandEntries
    \/ CommandAnalysis
    \/ ReportConsole
    \/ ReportSave
    \/ ReportSaveFails
    \/ ReportNoOutput

SpecCommand == InitCommand /\ [][NextCommand]_vars

(***************************************************************************)
(* What a line of the catalogue is, read off the way it was written        *)
(***************************************************************************)
\* Empty or whitespace only
IsBlank(i) == \A k \in 1..Len(Text[i]) : Text[i][k] \in Space

\* The first character that is not whitespace is "#"
IsComment(i) ==
    \E k \in 1..Len(Text[i]) :
        /\ Text[i][k] = "#"
        /\ \A j \in 1..(k - 1) : Text[i][j] \in Space

\* <YYYY-MM-DD HH:MM:SS> <LEVEL-TOKEN> [<DEVICE>] <MESSAGE>
HasShape(i) ==
    LET l == Lines[i]
    IN  /\ l.kind = "log"
        /\ Range(l.lead) \subseteq Space /\ Range(l.trail) \subseteq Space
        /\ l.gap # <<>> /\ Range(l.gap) \subseteq Space
        /\ l.level # <<>> /\ Range(l.level) \subseteq Word
        /\ l.device # <<>> /\ "]" \notin Range(l.device)
        /\ l.message # <<>> /\ l.message[1] \notin Space
        /\ l.message[Len(l.message)] \notin Space

SameIgnoringCase(a, b) ==
    /\ Len(a) = Len(b)
    /\ \A k \in 1..Len(a) :
          \/ a[k] = b[k]
          \/ \E j \in 1..26 : {a[k], b[k]} = {LowerChars[j], UpperChars[j]}

\* The level token is, case-insensitively, one of the five levels
HasValidLevel(i) == \E L \in LevelPattern : SameIgnoringCase(Lines[i].level, L)

MonthLengths == <<31, 28, 31, 30, 31, 30, 31, 31, 30, 31, 30, 31>>

\* The date and the time written on the line exist
HasRealDateTime(i) ==
    LET d == Lines[i].date
        t == Lines[i].time
    IN  /\ d[1] \in 1..9999 /\ d[2] \in 1..12
        /\ d[3] \in 1..(IF d[2] = 2 /\ IsLeap(d[1]) THEN 29 ELSE MonthLengths[d[2]])
        /\ t[1] \in 0..23 /\ t[2] \in 0..59 /\ t[3] \in 0..59

HasDeviceInBounds(i) == Len(Lines[i].device) \in 1..100

WellFormed(i) == HasShape(i) /\ HasValidLevel(i) /\ HasRealDateTime(i) /\ HasDeviceInBounds(i)

\* The entry a well-formed line stands for
EntryOf(i) ==
    LET l == Lines[i]
    IN  [timestamp |-> [year |-> l.date[1], month |-> l.date[2], day |-> l.date[3],
                        hour |-> l.time[1], minute |-> l.time[2], second |-> l.time[3]],
         level |-> CHOOSE L \in LevelPattern : SameIgnoringCase(l.level, L),
         device |-> l.device,
         message |-> l.message]

RECURSIVE EntriesOf(_)
EntriesOf(f) ==
    IF f = <<>> THEN <<>>
    ELSE LET rest == EntriesOf(SubSeq(f, 1, Len(f) - 1))
             i == f[Len(f)]
         IN  IF WellFormed(i) THEN Append(rest, EntryOf(i)) ELSE rest

\* This step is one pass of the loop of parse() over line file[line_num']
LineStep == pc = "reading" /\ line_num' = line_num + 1

(***************************************************************************)
(* Properties of LogParser                                                 *)
(***************************************************************************)
\* C1: a line that is not blank, not a comment and not a well-formed log
\* line (it lacks the shape of the grammar, or a field of it is refused)
\* adds exactly one pair to the error list, carrying the 1-based position
\* of the line in the file, adds no entry, and leaves parse() reading with
\* the file open: the lines after it are still processed.
C1_BadLineRecordedAndParsingContinues ==
    [][(LineStep /\ ~IsBlank(file[line_num']) /\ ~IsComment(file[line_num'])
                 /\ ~WellFormed(file[line_num']))
        => /\ Len(_errors') = Len(_errors) + 1
           /\ SubSeq(_errors', 1, Len(_errors)) = _errors
           /\ _errors'[Len(_errors')][1] = line_num + 1
           /\ entries' = entries
           /\ pc' = "reading" /\ handle_open']_vars

\* A file whose first line is skipped, whose second line has no log shape:
\* the error carries position 2, and parse() went on to return.
C1_Witness ==
    /\ pc = "returned" /\ runs = 1 /\ Len(file) = 2
    /\ IsComment(file[1]) /\ ~HasShape(file[2]) /\ ~IsBlank(file[2]) /\ ~IsComment(file[2])
    /\ Len(_errors) = 1 /\ _errors[1][1] = 2 /\ entries = <<>>

\* C2 as stated: every line that matches the grammar (its shape, with a
\* date and time that exist) and whose level token is case-insensitively
\* one of the five levels adds exactly one entry, with the fields written
\* on the line.
C2_Original ==
    [][(LineStep /\ HasShape(file[line_num']) /\ HasRealDateTime(file[line_num'])
                 /\ HasValidLevel(file[line_num']))
        => /\ entries' = Append(entries, EntryOf(file[line_num']))
           /\ _errors' = _errors]_vars

\* C2 amended: every line that has the shape of the grammar, a level token
\* that is case-insensitively one of the five levels, a date and time that
\* exist and a device of at most 100 characters adds exactly one entry:
\* timestamp the parsed date and time, level the token in upper case,
\* device and message the text of the line verbatim; no error is recorded.
C2_WellFormedLineYieldsItsEntry ==
    [][(LineStep /\ WellFormed(file[line_num']))
        => /\ entries' = Append(entries, EntryOf(file[line_num']))
           /\ _errors' = _errors]_vars

\* The line with the lower-case level, the whitespace around it and the
\* wider gap in the timestamp was parsed into an ERROR entry.
C2_Witness ==
    /\ pc = "reading" /\ line_num = 1 /\ runs = 1
    /\ Lines[file[1]].level = <<"e", "r", "r", "o", "r">>
    /\ Len(entries) = 1 /\ entries[1].level = ERROR /\ entries[1].device = S2
    /\ entries[1].message = MsgTo
    /\ entries[1].timestamp.hour = 9 /\ entries[1].timestamp.minute = 30

\* C3: a line that has the shape of the grammar and a level token outside
\* the closed set adds no entry, and the error count grows by exactly 1.
C3_UnknownLevelIsOneError ==
    [][(LineStep /\ HasShape(file[line_num']) /\ ~HasValidLevel(file[line_num']))
        => /\ entries' = entries
           /\ Len(_errors') = Len(_errors) + 1]_vars

\* A TRACE line with an existing date was read: one error, no entry.
C3_Witness ==
    /\ pc = "reading" /\ line_num = 1 /\ runs = 1
    /\ HasShape(file[1]) /\ ~HasValidLevel(file[1]) /\ HasRealDateTime(file[1])
    /\ error_count = 1 /\ entries = <<>>

\* C4: a blank line and a comment line change neither the entry sequence
\* nor the error list.
C4_BlankAndCommentSkipped ==
    [][(LineStep /\ (IsBlank(file[line_num']) \/ IsComment(file[line_num'])))
        => /\ entries' = entries
           /\ _errors' = _errors]_vars

\* An indented comment and a whitespace-only line were read: nothing kept.
C4_Witness ==
    /\ pc = "reading" /\ line_num = 2 /\ runs = 1
    /\ IsComment(file[1]) /\ Text[file[1]][1] # "#"
    /\ IsBlank(file[2]) /\ Text[file[2]] # <<>>
    /\ entries = <<>> /\ _errors = <<>>

\* C5: what parse() returns on a fresh parser is the sequence of the
\* entries of the well-formed lines of the file, in file order, each once.
C5_EntriesInFileOrder ==
    (pc = "returned" /\ runs = 1) => entries = EntriesOf(file)

\* Two different well-formed lines, with a bad line read in between or not:
\* two entries, in the order of the lines.
C5_Witness ==
    /\ pc = "returned" /\ runs = 1 /\ Len(file) = 2
    /\ WellFormed(file[1]) /\ WellFormed(file[2]) /\ file[1] # file[2]
    /\ entries = <<EntryOf(file[1]), EntryOf(file[2])>>

\* C6: every entry the parser holds has one of the five levels in upper
\* case, a device of 1 to 100 characters and a non-empty message.
C6_EntriesAreValid ==
    \A k \in 1..Len(entries) :
        /\ entries[k].level \in {DEBUG, INFO, WARNING, ERROR, CRITICAL}
        /\ Len(entries[k].device) \in 1..100
        /\ Len(entries[k].message) >= 1

\* The parser holds an entry with a device of exactly 100 characters, and
\* has refused the line whose device has 101.
C6_Witness ==
    /\ Len(file) = 2 /\ line_num = 2
    /\ Len(Lines[file[1]].device) = 100 /\ Len(Lines[file[2]].device) = 101
    /\ Len(entries) = 1 /\ Len(entries[1].device) = 100 /\ error_count = 1

\* C7 as stated: when the first parse() of a parser has raised, the parser
\* holds no entry and no parse error.
C7_Original ==
    (pc = "raised" /\ runs = 1) => (entries = <<>> /\ _errors = <<>>)

(***************************************************************************)
(* Messages read word by word                                              *)
(***************************************************************************)
\* The words of a message, split at single blanks
RECURSIVE Words(_)
Words(m) ==
    IF \E i \in 1..Len(m) : m[i] = " "
    THEN LET i == CHOOSE i \in 1..Len(m) : m[i] = " " /\ \A j \in 1..(i - 1) : m[j] # " "
         IN  <<Slice(m, 1, i - 1)>> \o Words(Slice(m, i + 1, Len(m)))
    ELSE <<m>>

RECURSIVE Joined(_)
Joined(ws) ==
    IF Len(ws) = 1 THEN ws[1]
    ELSE ws[1] \o <<" ">> \o Joined(SubSeq(ws, 2, Len(ws)))

\* A standalone digit run
IsNumberWord(w) == w # <<>> /\ \A i \in 1..Len(w) : w[i] \in Digit

\* A dotted-quad IP address: four groups of one to three digits
IsAddressWord(w) ==
    LET dots == {i \in 1..Len(w) : w[i] = "."}
    IN  /\ Cardinality(dots) = 3
        /\ \A i \in 1..Len(w) : i \notin dots => w[i] \in Digit
        /\ \A i \in dots \cup {0} :
              LET next == IF \E j \in dots : j > i
                          THEN CHOOSE j \in dots : j > i /\ \A h \in dots : h > i => j <= h
                          ELSE Len(w) + 1
              IN  next - i - 1 \in 1..3

\* Every word of the message is an address, a number, or free of digits
IsPlain(m) ==
    \A k \in 1..Len(Words(m)) :
        LET w == Words(m)[k]
        IN  IsAddressWord(w) \/ IsNumberWord(w) \/ \A i \in 1..Len(w) : w[i] \notin Digit

\* The message with its addresses replaced by X.X.X.X and its numbers by N
PlainKey(m) ==
    Joined([k \in 1..Len(Words(m)) |->
                LET w == Words(m)[k]
                IN  IF IsAddressWord(w) THEN <<"X", ".", "X", ".", "X", ".", "X">>
                    ELSE IF IsNumberWord(w) THEN <<"N">>
                    ELSE w])

\* The two messages differ only in their addresses and numbers
DifferOnlyInAddressesAndNumbers(m1, m2) ==
    /\ Len(Words(m1)) = Len(Words(m2))
    /\ \A k \in 1..Len(Words(m1)) :
          LET w1 == Words(m1)[k]
              w2 == Words(m2)[k]
          IN  \/ w1 = w2
              \/ IsAddressWord(w1) /\ IsAddressWord(w2)
              \/ IsNumberWord(w1) /\ IsNumberWord(w2)

\* The messages of the entry lists
AnalyzedMessages == {Pool[i].message : i \in 1..Len(Pool)} \cup {Bulk[k].message : k \in 1..Len(Bulk)}

\* The bucket an error message is counted in, read word by word when the
\* message is plain
BucketOf == [m \in AnalyzedMessages |-> IF IsPlain(m) THEN PlainKey(m) ELSE _simplify_message(m)]

\* The pairs of plain messages that differ only in addresses and numbers
Similar ==
    {mm \in AnalyzedMessages \X AnalyzedMessages :
        IsPlain(mm[1]) /\ IsPlain(mm[2]) /\ DifferOnlyInAddressesAndNumbers(mm[1], mm[2])}

\* The positions of the ERROR and CRITICAL entries of the analyzed list
ErrorPositions == {i \in 1..Len(an_entries) : an_entries[i].level \in {ERROR, CRITICAL}}

ErrorMessages == {an_entries[i].message : i \in ErrorPositions}

Buckets == {BucketOf[m] : m \in ErrorMessages}

BucketCount(key) == Cardinality({i \in ErrorPositions : BucketOf[an_entries[i].message] = key})

BucketFirst(key) ==
    CHOOSE i \in ErrorPositions :
        /\ BucketOf[an_entries[i].message] = key
        /\ \A j \in ErrorPositions : BucketOf[an_entries[j].message] = key => i <= j

(***************************************************************************)
(* Properties of LogAnalyzer                                               *)
(***************************************************************************)
\* C8: analyze() on an empty entry list returns a snapshot with
\* total_entries 0, error_rate 0.0, every distribution, top_errors and
\* critical_events empty, and a date_range whose start equals its end.
C8_EmptyAnalysis ==
    an_entries = <<>> =>
        \A k \in 1..Len(snapshots) :
            /\ snapshots[k].total_entries = 0
            /\ error_rate(snapshots[k]) = Zero
            /\ snapshots[k].level_distribution = <<>>
            /\ snapshots[k].device_distribution = <<>>
            /\ snapshots[k].errors_by_device = <<>>
            /\ snapshots[k].hourly_distribution = <<>>
            /\ snapshots[k].top_errors = <<>>
            /\ snapshots[k].critical_events = <<>>
            /\ snapshots[k].date_range[1] = snapshots[k].date_range[2]

\* analyze() has returned twice on the empty list, at two different times.
C8_Witness ==
    /\ an_entries = <<>> /\ Len(snapshots) = 2
    /\ snapshots[1].date_range # snapshots[2].date_range

\* C9: two ERROR or CRITICAL entries whose messages differ only in their
\* dotted-quad addresses and standalone digit runs are counted under one
\* key of top_errors: the message with every address replaced by X.X.X.X
\* and every digit run by N; the raw messages are not keys; the count of
\* the key is the number of error entries that normalize to it; and the key
\* is present whenever fewer than 5 keys are.
C9_SimilarErrorsShareABucket ==
    \A k \in 1..Len(snapshots) :
        LET top == snapshots[k].top_errors
        IN  \A mi, mj \in ErrorMessages :
                <<mi, mj>> \in Similar
                    => /\ \A p \in 1..Len(top) :
                             /\ (top[p][1] = BucketOf[mi]) = (top[p][1] = BucketOf[mj])
                             /\ top[p][1] = BucketOf[mi] => top[p][2] = BucketCount(BucketOf[mi])
                             /\ top[p][1] = mi => mi = BucketOf[mi]
                       /\ Len(top) < 5 => \E p \in 1..Len(top) : top[p][1] = BucketOf[mi]

\* Timeouts to two different addresses and a port failure were analyzed:
\* one key "to X.X.X.X" counting both timeouts, and one key "port N down".
C9_Witness ==
    /\ Len(snapshots) >= 1
    /\ \E i, j \in ErrorPositions : an_entries[i].message = MsgTo192 /\ an_entries[j].message = MsgTo
    /\ \E i \in ErrorPositions : an_entries[i].message = MsgPort8
    /\ \E p \in 1..Len(snapshots[1].top_errors) :
          snapshots[1].top_errors[p] = <<<<"t", "o", " ", "X", ".", "X", ".", "X", ".", "X">>, 2>>
    /\ \E p \in 1..Len(snapshots[1].top_errors) :
          snapshots[1].top_errors[p] = <<<<"p", "o", "r", "t", " ", "N", " ", "d", "o", "w", "n">>, 1>>

\* C10: top_errors has at most 5 pairs; every pair is the bucket of some
\* ERROR or CRITICAL entry with the number of such entries as its count;
\* counts are descending; pairs of equal count are in the order in which
\* their buckets first occur in the input; and no omitted bucket has a count
\* larger than that of an included one.
C10_TopErrorsOrdered ==
    \A k \in 1..Len(snapshots) :
        LET top == snapshots[k].top_errors
        IN  /\ Len(top) <= 5
            /\ \A p \in 1..Len(top) :
                  top[p][1] \in Buckets /\ top[p][2] = BucketCount(top[p][1])
            /\ \A p, q \in 1..Len(top) :
                  p < q => \/ top[p][2] > top[q][2]
                           \/ /\ top[p][2] = top[q][2]
                              /\ BucketFirst(top[p][1]) < BucketFirst(top[q][1])
            /\ \A b \in Buckets :
                  (\A p \in 1..Len(top) : top[p][1] # b)
                      => \A p \in 1..Len(top) : BucketCount(b) <= top[p][2]

\* Seven buckets were analyzed: five were kept, the first is a bucket that
\* occurs later in the input than the second, the second and the fifth have
\* the same count, and two buckets were left out.
C10_Witness ==
    /\ Len(snapshots) >= 1
    /\ Cardinality(Buckets) = 7
    /\ Len(snapshots[1].top_errors) = 5
    /\ BucketFirst(snapshots[1].top_errors[1][1]) > BucketFirst(snapshots[1].top_errors[2][1])
    /\ snapshots[1].top_errors[2][2] = snapshots[1].top_errors[5][2]

(***************************************************************************)
(* The analyzed list, counted position by position                         *)
(***************************************************************************)
Positions == 1..Len(an_entries)

DeviceSet == {an_entries[i].device : i \in Positions}

DeviceCount(d) == Cardinality({i \in Positions : an_entries[i].device = d})

\* The position at which the device is first encountered
DeviceFirst(d) ==
    CHOOSE i \in Positions :
        /\ an_entries[i].device = d
        /\ \A j \in Positions : an_entries[j].device = d => i <= j

\* d1 has more entries than d2, or as many and is encountered first
DeviceAhead(d1, d2) ==
    \/ DeviceCount(d1) > DeviceCount(d2)
    \/ DeviceCount(d1) = DeviceCount(d2) /\ DeviceFirst(d1) < DeviceFirst(d2)

Min(a, b) == IF a < b THEN a ELSE b

\* The keys of a dict
Keys(dict) == {dict[p][1] : p \in 1..Len(dict)}

\* C11: device_distribution has min(10, number of distinct devices) keys;
\* each key is a device of the input mapped to the number of its entries;
\* the keys are listed by count descending, devices of equal count in the
\* order in which they are first encountered; and every device left out
\* has fewer entries than each kept one, or as many and is encountered later.
C11_DeviceDistributionTopTen ==
    \A k \in 1..Len(snapshots) :
        LET dd == snapshots[k].device_distribution
        IN  /\ Len(dd) = Min(10, Cardinality(DeviceSet))
            /\ \A p \in 1..Len(dd) :
                  dd[p][1] \in DeviceSet /\ dd[p][2] = DeviceCount(dd[p][1])
            /\ \A p, q \in 1..Len(dd) : p < q => DeviceAhead(dd[p][1], dd[q][1])
            /\ \A d \in DeviceSet \ Keys(dd) :
                  \A p \in 1..Len(dd) : DeviceAhead(dd[p][1], d)

\* Eleven devices were analyzed: ten were kept, the first of them is the
\* device with two entries although nine devices are encountered before it,
\* and the device left out has as many entries as the last one kept.
C11_Witness ==
    /\ Len(snapshots) >= 1
    /\ Cardinality(DeviceSet) = 11
    /\ Len(snapshots[1].device_distribution) = 10
    /\ snapshots[1].device_distribution[1] = <<R1, 2>>
    /\ DeviceFirst(R1) = 10
    /\ \E d \in DeviceSet \ Keys(snapshots[1].device_distribution) :
          DeviceCount(d) = snapshots[1].device_distribution[10][2]

\* The k-th smallest element of a set of positions
Nth(S, k) == CHOOSE i \in S : Cardinality({j \in S : j <= i}) = k

CriticalPositions == {i \in Positions : an_entries[i].level = CRITICAL}

\* C12: critical_events holds as many entries as the input has CRITICAL
\* entries, the k-th of them being the k-th CRITICAL entry of the input
\* with all its fields; its length is the CRITICAL count of
\* level_distribution, 0 when CRITICAL is not a key.
C12_CriticalEventsInOrder ==
    \A k \in 1..Len(snapshots) :
        LET ce == snapshots[k].critical_events
        IN  /\ Len(ce) = Cardinality(CriticalPositions)
            /\ \A n \in 1..Len(ce) : ce[n] = an_entries[Nth(CriticalPositions, n)]
            /\ Len(ce) = Get(snapshots[k].level_distribution, CRITICAL, 0)

\* Two different CRITICAL entries with ERROR entries between them were
\* analyzed: both are in critical_events, in input order.
C12_Witness ==
    /\ Len(snapshots) >= 1
    /\ Len(snapshots[1].critical_events) = 2
    /\ snapshots[1].critical_events[1] = Bulk[2]
    /\ snapshots[1].critical_events[2] = Pool[2]
    /\ Len(an_entries) > 10

\* |x| <= |y| on floats
MagnitudeLeq(x, y) ==
    \/ x.bits = <<>>
    \/ /\ y.bits # <<>>
       /\ \/ x.exp < y.exp
          \/ /\ x.exp = y.exp
             /\ \/ x.bits = y.bits
                \/ \E i \in 1..Precision :
                      /\ x.bits[i] < y.bits[i]
                      /\ \A j \in 1..(i - 1) : x.bits[j] = y.bits[j]

\* x <= y on floats
FloatLeq(x, y) ==
    IF x.neg # y.neg THEN x.neg
    ELSE IF x.neg THEN MagnitudeLeq(y, x) ELSE MagnitudeLeq(x, y)

\* The float after the positive float x
Successor(x) ==
    IF \A i \in 1..Precision : x.bits[i] = 1
    THEN [neg |-> FALSE, exp |-> x.exp + 1, bits |-> <<1>> \o Zeros(Precision - 1)]
    ELSE [neg |-> FALSE, exp |-> x.exp, bits |-> Increment(x.bits)]

\* x and y are the same float or neighbours
WithinOneUlp(x, y) ==
    \/ x = y
    \/ x # Zero /\ y # Zero /\ (Successor(x) = y \/ Successor(y) = x)

\* The number of ERROR and CRITICAL entries of the analyzed list
ErrorTotal == Cardinality(ErrorPositions)

\* The float nearest to ErrorTotal * 100 / (number of entries)
NearestRate == fdiv(Float(ErrorTotal * 100), Len(an_entries))

\* C13 as stated: error_rate is the float (count(ERROR) + count(CRITICAL))
\* * 100 / total_entries when there are entries and 0.0 when there are
\* none; it lies between 0 and 100, is 0.0 when no entry is ERROR or
\* CRITICAL and 100.0 when every entry is.
C13_Original ==
    \A k \in 1..Len(snapshots) :
        LET rate == error_rate(snapshots[k])
        IN  /\ an_entries # <<>> => rate = NearestRate
            /\ an_entries = <<>> => rate = Zero
            /\ FloatLeq(Zero, rate) /\ FloatLeq(rate, Float(100))
            /\ ErrorTotal = 0 => rate = Zero
            /\ (an_entries # <<>> /\ ErrorTotal = Len(an_entries)) => rate = Float(100)

\* C13 amended: error_rate is the float obtained by dividing count(ERROR)
\* + count(CRITICAL) by total_entries and multiplying the rounded quotient
\* by 100, which is the float nearest to the exact percentage or a
\* neighbour of it, when there are entries, and 0.0 when there are none; it
\* lies between 0 and 100, is exactly 0.0 when no entry is ERROR or
\* CRITICAL and exactly 100.0 when every entry is.
C13_ErrorRate ==
    \A k \in 1..Len(snapshots) :
        LET rate == error_rate(snapshots[k])
        IN  /\ an_entries # <<>> =>
                  /\ rate = fmul(fdiv(Float(ErrorTotal), Len(an_entries)), 100)
                  /\ WithinOneUlp(rate, NearestRate)
            /\ an_entries = <<>> => rate = Zero
            /\ FloatLeq(Zero, rate) /\ FloatLeq(rate, Float(100))
            /\ ErrorTotal = 0 => rate = Zero
            /\ (an_entries # <<>> /\ ErrorTotal = Len(an_entries)) => rate = Float(100)

\* An ERROR, a CRITICAL and an INFO entry were analyzed: error_rate is
\* 66.66666666666666, the float before the one nearest to 200 / 3.
C13_Witness ==
    /\ Len(snapshots) >= 1
    /\ Len(an_entries) = 3
    /\ {an_entries[i].level : i \in Positions} = {ERROR, CRITICAL, INFO}
    /\ Successor(error_rate(snapshots[1])) = NearestRate

LevelSet == {an_entries[i].level : i \in Positions}

LevelCount(l) == Cardinality({i \in Positions : an_entries[i].level = l})

\* The sum of the values of a dict
RECURSIVE SumValues(_)
SumValues(dict) ==
    IF dict = <<>> THEN 0
    ELSE dict[Len(dict)][2] + SumValues(SubSeq(dict, 1, Len(dict) - 1))

\* C14: total_entries is the number of input entries; level_distribution
\* has one key for each level that occurs in the input and no other key,
\* each mapped to the number of entries of that level (at least 1), and its
\* values sum to total_entries.
C14_LevelDistribution ==
    \A k \in 1..Len(snapshots) :
        LET ld == snapshots[k].level_distribution
        IN  /\ snapshots[k].total_entries = Len(an_entries)
            /\ Keys(ld) = LevelSet
            /\ Len(ld) = Cardinality(LevelSet)
            /\ \A p \in 1..Len(ld) : ld[p][2] = LevelCount(ld[p][1]) /\ ld[p][2] >= 1
            /\ SumValues(ld) = snapshots[k].total_entries

\* Twelve entries of three of the five levels were analyzed: three keys,
\* CRITICAL counted twice.
C14_Witness ==
    /\ Len(snapshots) >= 1
    /\ snapshots[1].total_entries = 12
    /\ LevelSet = {ERROR, CRITICAL, INFO}
    /\ Len(snapshots[1].level_distribution) = 3
    /\ Get(snapshots[1].level_distribution, CRITICAL, 0) = 2

ErrorDeviceSet == {an_entries[i].device : i \in ErrorPositions}

ErrorDeviceCount(d) == Cardinality({i \in ErrorPositions : an_entries[i].device = d})

\* C15: errors_by_device has at most 10 keys (10, or every device with an
\* error when there are fewer); each key is a device with at least one
\* ERROR or CRITICAL entry, mapped to the number of its ERROR and CRITICAL
\* entries; no key occurs twice; the keys are listed by count descending;
\* and no device left out has more errors than a kept one.
C15_ErrorsByDevice ==
    \A k \in 1..Len(snapshots) :
        LET ebd == snapshots[k].errors_by_device
        IN  /\ Len(ebd) <= 10
            /\ Len(ebd) = Min(10, Cardinality(ErrorDeviceSet))
            /\ Cardinality(Keys(ebd)) = Len(ebd)
            /\ \A p \in 1..Len(ebd) :
                  /\ ebd[p][1] \in ErrorDeviceSet
                  /\ ebd[p][2] = ErrorDeviceCount(ebd[p][1])
                  /\ ebd[p][2] >= 1
            /\ \A p, q \in 1..Len(ebd) : p < q => ebd[p][2] >= ebd[q][2]
            /\ \A d \in ErrorDeviceSet \ Keys(ebd) :
                  \A p \in 1..Len(ebd) : ErrorDeviceCount(d) <= ebd[p][2]

\* Eleven devices with errors and one device with an INFO entry only were
\* analyzed: ten devices were kept, and the device without errors is not a
\* key.
C15_Witness ==
    /\ Len(snapshots) >= 1
    /\ Cardinality(ErrorDeviceSet) = 11
    /\ S2 \in DeviceSet \ ErrorDeviceSet
    /\ Len(snapshots[1].errors_by_device) = 10
    /\ S2 \notin Keys(snapshots[1].errors_by_device)

HourSet == {an_entries[i].timestamp.hour : i \in Positions}

HourCount(h) == Cardinality({i \in Positions : an_entries[i].timestamp.hour = h})

\* C16: for a non-empty input, hourly_distribution has one key for each
\* hour of 0..23 in which an entry falls and no other key, each mapped to
\* the number of entries of that hour, the keys strictly ascending, and the
\* values summing to total_entries.
C16_HourlyDistribution ==
    an_entries # <<>> =>
        \A k \in 1..Len(snapshots) :
            LET hd == snapshots[k].hourly_distribution
            IN  /\ Keys(hd) = HourSet
                /\ Keys(hd) \subseteq 0..23
                /\ \A p \in 1..Len(hd) : hd[p][2] = HourCount(hd[p][1])
                /\ \A p, q \in 1..Len(hd) : p < q => hd[p][1] < hd[q][1]
                /\ SumValues(hd) = snapshots[k].total_entries

\* Entries of hours 11 to 19 followed by an entry of hour 0 and two of
\* hour 8 were analyzed: hour 0 is the first key and hour 8 the second,
\* with count 2.
C16_Witness ==
    /\ Len(snapshots) >= 1
    /\ Len(an_entries) = 12
    /\ an_entries[1].timestamp.hour = 11
    /\ snapshots[1].hourly_distribution[1] = <<0, 1>>
    /\ snapshots[1].hourly_distribution[2] = <<8, 2>>

\* The seconds from 2024-12-01 00:00:00 to a timestamp of December 2024,
\* the month of every entry of the entry lists
SecondsInto(t) ==
    ((t.day - 1) * 86400) + (t.hour * 3600) + (t.minute * 60) + t.second

\* C17: for a non-empty input, in whatever order, date_range is the
\* earliest and the latest timestamp of the entries, so start is not after
\* end, and duration_hours is the float of the seconds between them
\* divided by 3600, which is not negative; entries spanning 08:00:00 to
\* 10:00:00 of one day give 2.0.
C17_DateRangeAndDuration ==
    an_entries # <<>> =>
        \A k \in 1..Len(snapshots) :
            LET start == snapshots[k].date_range[1]
                end == snapshots[k].date_range[2]
            IN  /\ \E i \in Positions : an_entries[i].timestamp = start
                /\ \E i \in Positions : an_entries[i].timestamp = end
                /\ \A i \in Positions :
                      /\ SecondsInto(start) <= SecondsInto(an_entries[i].timestamp)
                      /\ SecondsInto(an_entries[i].timestamp) <= SecondsInto(end)
                /\ SecondsInto(start) <= SecondsInto(end)
                /\ duration_hours(snapshots[k])
                       = fdiv(Float(SecondsInto(end) - SecondsInto(start)), 3600)
                /\ FloatLeq(Zero, duration_hours(snapshots[k]))
                /\ (start.day = end.day /\ SecondsInto(end) - SecondsInto(start) = 7200)
                       => duration_hours(snapshots[k]) = Float(2)

\* The entry of 10:00:00 was given first, then those of 08:15:00 and
\* 08:00:00: the range is 08:00:00 to 10:00:00 and duration_hours is 2.0.
C17_Witness ==
    /\ Len(snapshots) >= 1
    /\ an_entries = <<Pool[2], Pool[4], Pool[1]>>
    /\ snapshots[1].date_range = <<Stamp(2024, 12, 4, 8, 0, 0), Stamp(2024, 12, 4, 10, 0, 0)>>
    /\ duration_hours(snapshots[1]) = Float(2)

\* C18 as stated: the snapshots that analyze() returns on one entry list,
\* at whatever times, are equal in every field.
C18_Original ==
    \A j, k \in 1..Len(snapshots) : snapshots[j] = snapshots[k]

\* C19: no step changes the entry list the analyzer was constructed on
\* (its length, its order, and the timestamp, level, device and message of
\* every entry), and every entry of critical_events is a CRITICAL entry of
\* that list, with the message it has there.
C19_InputUnchanged ==
    /\ [][an_entries' = an_entries]_vars
    /\ [](\A k \in 1..Len(snapshots) :
            \A n \in 1..Len(snapshots[k].critical_events) :
                \E i \in CriticalPositions :
                    /\ snapshots[k].critical_events[n] = an_entries[i]
                    /\ snapshots[k].critical_events[n].message = an_entries[i].message)

\* A list with the CRITICAL timeout to 10.0.0.1 was analyzed twice: the key
\* of top_errors is "to X.X.X.X", the entry of critical_events and the
\* entry of the list still read "to 10.0.0.1".
C19_Witness ==
    /\ Len(snapshots) = 2
    /\ an_entries = <<Pool[2]>>
    /\ an_entries[1].message = MsgTo
    /\ snapshots[2].top_errors = <<<<<<"t", "o", " ", "X", ".", "X", ".", "X", ".", "X">>, 1>>>>
    /\ snapshots[2].critical_events = <<Pool[2]>>

\* The number of lines of a file that are neither blank, nor comments, nor
\* well-formed
BadCount(f) ==
    Cardinality({k \in 1..Len(f) : ~IsBlank(f[k]) /\ ~IsComment(f[k]) /\ ~WellFormed(f[k])})

\* C20 as stated: whenever a call of parse() has returned, the first on
\* this parser or a later one, the entries are those of the well-formed
\* lines of the file and error_count is the number of its failing lines.
C20_Original ==
    pc = "returned" => (entries = EntriesOf(file) /\ error_count = BadCount(file))

\* C21: the file handle of parse() is open only while parse() is reading:
\* once a call has returned, or has raised while opening or reading the
\* file, and before any call, no handle is open.
C21_HandleClosedOnEveryExit ==
    /\ (pc \in {"idle", "returned", "raised"}) => ~handle_open
    /\ pc = "reading" => handle_open

\* A read of the second call failed after a line had been read, the first
\* call having run on the same parser: no handle is open.
C21_Witness ==
    /\ pc = "raised" /\ runs = 2 /\ line_num = 1 /\ Len(file) = 2
    /\ ~handle_open

\* The timestamp of the line is written exactly as YYYY-MM-DD HH:MM:SS:
\* one space between date and time, and a date and time that exist
HasExactTimestamp(i) ==
    /\ Lines[i].kind = "log"
    /\ Lines[i].gap = <<" ">>
    /\ HasRealDateTime(i)

\* C22 as stated: a line that is neither blank nor a comment and whose
\* timestamp is not exactly of the form YYYY-MM-DD HH:MM:SS adds one parse
\* error and no entry, and parse() goes on reading.
C22_Original ==
    [][(LineStep /\ ~IsBlank(file[line_num']) /\ ~IsComment(file[line_num'])
                 /\ ~HasExactTimestamp(file[line_num']))
        => /\ entries' = entries
           /\ Len(_errors') = Len(_errors) + 1
           /\ pc' = "reading"]_vars

\* C23: a line that has the shape of the grammar and a device of more than
\* 100 characters adds exactly one parse error, carrying the position of
\* the line, and no entry (so none with a shortened device); parse() goes
\* on reading.
C23_LongDeviceRejected ==
    [][(LineStep /\ HasShape(file[line_num']) /\ Len(Lines[file[line_num']].device) > 100)
        => /\ entries' = entries
           /\ Len(_errors') = Len(_errors) + 1
           /\ _errors'[Len(_errors')][1] = line_num + 1
           /\ SubSeq(_errors', 1, Len(_errors)) = _errors
           /\ pc' = "reading"]_vars

\* The line with the device of 101 characters came first and a well-formed
\* line second: one error for line 1, and the only entry is that of line 2.
C23_Witness ==
    /\ pc = "returned" /\ runs = 1 /\ Len(file) = 2
    /\ HasShape(file[1]) /\ Len(Lines[file[1]].device) = 101 /\ HasValidLevel(file[1])
    /\ WellFormed(file[2]) /\ Len(Lines[file[2]].device) = 2
    /\ Len(_errors) = 1 /\ _errors[1][1] = 1
    /\ entries = <<EntryOf(file[2])>>

\* C24 as stated: in analyze, a readable file that yields no entry is not
\* an error: the run produces the empty snapshot and does not end on the
\* failure path, with exit code 1.
C24_Original ==
    (command = "analyze" /\ step = "exited" /\ pc = "returned" /\ entries = <<>>)
        => /\ exit_code # <<1>>
           /\ Len(snapshots) = 1
           /\ snapshots[1].total_entries = 0

\* The critical events of a snapshot recorded for the device
CriticalEventsOf(a, device) ==
    {k \in 1..Len(a.critical_events) : a.critical_events[k].device = device}

\* The entry line k of the sample log stands for
DemoEntry(k) ==
    LET l == DemoLines[k]
    IN  [timestamp |-> [year |-> l.date[1], month |-> l.date[2], day |-> l.date[3],
                        hour |-> l.time[1], minute |-> l.time[2], second |-> l.time[3]],
         level |-> l.level,
         device |-> l.device,
         message |-> l.message]

\* C25 as stated: parsing the 20 lines of the sample log written by
\* _create_demo_file yields 18 entries, and their analysis counts at least
\* one ERROR and holds a CRITICAL event of Router-01.
C25_Original ==
    /\ (file = demo_content /\ pc = "returned") => Len(entries) = 18
    /\ (file = demo_content /\ Len(snapshots) = 1) =>
            /\ Get(snapshots[1].level_distribution, ERROR, 0) >= 1
            /\ CriticalEventsOf(snapshots[1], Router01) # {}

\* C25: parsing the 20 lines of the sample log written by _create_demo_file
\* yields 20 entries, one for each line and in the order of the lines, and
\* no parse error; their analysis counts at least one ERROR and holds a
\* CRITICAL event of Router-01.
C25_DemoFixtureParses ==
    /\ Len(demo_content) = 20
    /\ (file = demo_content /\ pc = "returned") =>
            /\ Len(entries) = 20
            /\ error_count = 0
            /\ \A k \in 1..20 : entries[k] = DemoEntry(k)
    /\ (file = demo_content /\ Len(snapshots) = 1) =>
            /\ snapshots[1].total_entries = 20
            /\ Get(snapshots[1].level_distribution, ERROR, 0) >= 1
            /\ CriticalEventsOf(snapshots[1], Router01) # {}

\* demo found no sample log, wrote it, parsed its 20 lines into 20 entries
\* and reported their analysis, which counts 12 ERROR entries and holds two
\* CRITICAL events of Router-01
C25_Witness ==
    /\ command = "demo" /\ step = "exited" /\ exit_code = <<0>>
    /\ console[1].item = "Demo file not found"
    /\ file = demo_content
    /\ Len(entries) = 20
    /\ Len(snapshots) = 1
    /\ Get(snapshots[1].level_distribution, ERROR, 0) = 12
    /\ Cardinality(CriticalEventsOf(snapshots[1], Router01)) = 2

\* The number of lines of a file that are blank or comments
SkippedCount(f) ==
    Cardinality({k \in 1..Len(f) : IsBlank(f[k]) \/ IsComment(f[k])})

\* C26: when the first parse() of a parser has returned, every line of the
\* file is accounted for exactly once: the entries, the recorded errors and
\* the blank or comment lines add up to the lines of the file, and the line
\* numbers of the recorded errors are strictly increasing; no pass of the
\* loop over a line adds both an entry and an error.
C26_EveryLineAccountedOnce ==
    /\ []((pc = "returned" /\ runs = 1) =>
            /\ Len(entries) + error_count + SkippedCount(file) = Len(file)
            /\ \A i, j \in 1..Len(get_errors) :
                  i < j => get_errors[i][1] < get_errors[j][1])
    /\ [][(LineStep /\ runs = 1) =>
            ~(Len(entries') > Len(entries) /\ Len(_errors') > Len(_errors))]_vars

\* The first parse() returned from a file of two failing lines, whose errors
\* carry the line numbers 1 and 2
C26_Witness ==
    /\ pc = "returned" /\ runs = 1 /\ Len(file) = 2
    /\ ~IsBlank(file[1]) /\ ~IsComment(file[1]) /\ ~WellFormed(file[1])
    /\ ~IsBlank(file[2]) /\ ~IsComment(file[2]) /\ ~WellFormed(file[2])
    /\ entries = <<>>
    /\ Len(_errors) = 2 /\ _errors[1][1] = 1 /\ _errors[2][1] = 2

\* A distribution that is not empty has a count above 0, so its largest
\* count is above 0
HasPositiveCount(dict) == dict # <<>> => \E p \in 1..Len(dict) : dict[p][2] > 0

\* C27: for every snapshot analyze() returns, the empty one included, no
\* rendering of Reporter (console, text, JSON, HTML) is left by a
\* ZeroDivisionError: where a level is listed, and so a percentage divides by
\* total_entries, total_entries is above 0, and every distribution whose
\* bars divide by its largest count has a largest count above 0.
C27_NoDivisionByZero ==
    /\ failure # "ZeroDivisionError"
    /\ \A k \in 1..Len(snapshots) :
          LET a == snapshots[k]
          IN  /\ a.level_distribution # <<>> => a.total_entries > 0
              /\ HasPositiveCount(a.level_distribution)
              /\ HasPositiveCount(a.device_distribution)
              /\ HasPositiveCount(a.errors_by_device)
              /\ HasPositiveCount(a.hourly_distribution)
    /\ (reports = 1 /\ failure = "none" /\ saved = <<>>) =>
            console = display_console(snapshots[1]).out
    /\ (saved # <<>>) =>
            saved[1].content = save(snapshots[1], saved[1].format).out

\* The empty snapshot was displayed on the console: the title, the summary
\* and the line that tells there is no error, with no section in between
C27_Witness ==
    /\ an_entries = <<>>
    /\ snapshots[1].total_entries = 0
    /\ reports = 1 /\ failure = "none" /\ saved = <<>>
    /\ Len(console) = 3
    /\ console[1].item = "Network Log Analysis Report"

\* The text ends with the ending, after at least one other character
EndsWith(text, ending) ==
    /\ Len(text) > Len(ending)
    /\ SubSeq(text, Len(text) - Len(ending) + 1, Len(text)) = ending

EndsWithIgnoringCase(text, ending) ==
    /\ Len(text) > Len(ending)
    /\ SameIgnoringCase(SubSeq(text, Len(text) - Len(ending) + 1, Len(text)), ending)

DotJson == <<".", "j", "s", "o", "n">>
DotHtml == <<".", "h", "t", "m", "l">>

\* The format a path stands for, its suffix read as it is written
ExactSuffixFormat ==
    [p \in Paths |-> IF EndsWith(p, DotJson) THEN "json"
                     ELSE IF EndsWith(p, DotHtml) THEN "html"
                     ELSE "text"]

\* The format a path stands for, its suffix read in any letter case
LowerSuffixFormat ==
    [p \in Paths |-> IF EndsWithIgnoringCase(p, DotJson) THEN "json"
                     ELSE IF EndsWithIgnoringCase(p, DotHtml) THEN "html"
                     ELSE "text"]

ReportShown == \E k \in 1..Len(console) : console[k].item = "Network Log Analysis Report"

\* In analyze, the report step comes only after parse() returned at least
\* one entry and their analysis was made, and a run without --output and
\* with a format other than "console" ends with exit code 1, nothing saved
\* and no report on the console
ReportStepInOrder ==
    command = "analyze" =>
        /\ (step = "report" \/ reports > 0 \/ saved # <<>> \/ ReportShown) =>
                /\ pc = "returned"
                /\ entries # <<>>
                /\ an_entries = entries
                /\ Len(snapshots) = 1
                /\ snapshots[1].total_entries = Len(entries)
        /\ (step = "exited" /\ output = <<>> /\ format # "console") =>
                /\ exit_code = <<1>>
                /\ saved = <<>>
                /\ reports = 0
                /\ ~ReportShown

\* The step of analyze that ends the report step, with the formats the
\* paths stand for
ReportStepRouted(chosen) ==
    (command = "analyze" /\ step = "report" /\ step' = "exited") =>
        /\ (output = <<>> /\ format = "console") =>
                /\ saved' = <<>>
                /\ exit_code' = <<0>>
                /\ SubSeq(console', Len(console) + 1,
                          Len(console) + Len(display_console(snapshots[1]).out))
                       = display_console(snapshots[1]).out
        /\ (output # <<>> /\ format = "console") =>
                /\ format' = chosen[output[1]]
                /\ saved' # <<>> =>
                        /\ saved'[1].path = output[1]
                        /\ saved'[1].format = chosen[output[1]]
                        /\ saved'[1].content = save(snapshots[1], chosen[output[1]]).out
        /\ (output = <<>> /\ format # "console") =>
                /\ exit_code' = <<1>>
                /\ saved' = <<>>
                /\ console'[Len(console) + 1].item = "--output required when using --format"

\* C28 as stated: in analyze the report step is reached only after parsing
\* returned at least one entry and analysis completed; with no --output and
\* format "console" the report is shown on the console; with --output and
\* format "console" the file format is chosen by the output suffix (.json
\* gives json, .html gives html, anything else text); with a format other
\* than "console" and no --output the run ends with exit code 1 and no
\* report is written or displayed.
C28_Original ==
    /\ []ReportStepInOrder
    /\ [][ReportStepRouted(ExactSuffixFormat)]_vars

\* C28: as stated, with the suffix of the output read in any letter case:
\* .json, .JSON, .Json give json, .html, .HTML give html, anything else text.
C28_ReportRouting ==
    /\ []ReportStepInOrder
    /\ [][ReportStepRouted(LowerSuffixFormat)]_vars

\* analyze was given --output o/r.HTML: the report was saved there as html,
\* after parse() returned an entry and the analysis was made
C28_Witness ==
    /\ command = "analyze" /\ step = "exited" /\ exit_code = <<0>>
    /\ output = << <<"o", "/", "r", ".", "H", "T", "M", "L">> >>
    /\ entries # <<>> /\ Len(snapshots) = 1
    /\ Len(saved) = 1
    /\ saved[1].path = output[1]
    /\ saved[1].format = "html"
    /\ format = "html"

\* C29: for a non-empty input, the values of errors_by_device sum to at
\* most level_distribution[ERROR] + level_distribution[CRITICAL], and to
\* exactly that when at most 10 devices have error entries; the counts of
\* top_errors sum to at most that number too, and to exactly that when the
\* error messages fall in at most 5 buckets; and errors_by_device[d] is at
\* most the number of entries of device d.
C29_ErrorSumsBounded ==
    \A k \in 1..Len(snapshots) :
        an_entries # <<>> =>
            LET a == snapshots[k]
                errors == Get(a.level_distribution, ERROR, 0)
                              + Get(a.level_distribution, CRITICAL, 0)
            IN  /\ SumValues(a.errors_by_device) <= errors
                /\ Cardinality(ErrorDeviceSet) <= TopDevices =>
                        SumValues(a.errors_by_device) = errors
                /\ SumValues(a.top_errors) <= errors
                /\ Cardinality(Buckets) <= TopErrorsLimit =>
                        SumValues(a.top_errors) = errors
                /\ \A p \in 1..Len(a.errors_by_device) :
                        a.errors_by_device[p][2] <= DeviceCount(a.errors_by_device[p][1])

\* Twelve error entries of twelve devices with seven kinds of message were
\* analyzed: both sums are 10, below the 12 errors
C29_Witness ==
    /\ Len(snapshots) >= 1
    /\ Cardinality(ErrorDeviceSet) = 12
    /\ Cardinality(Buckets) = 7
    /\ Get(snapshots[1].level_distribution, ERROR, 0)
           + Get(snapshots[1].level_distribution, CRITICAL, 0) = 12
    /\ SumValues(snapshots[1].errors_by_device) = 10
    /\ SumValues(snapshots[1].top_errors) = 10

====
